---- MODULE Spec2Model ----
(***************************************************************************)
(* Workflow engine of the report generator: the document-preparation       *)
(* graph (core/agents/graph.py) driven by generate and edit                *)
(* (core/document.py), the per-section drafting fan-out                    *)
(* (core/agents/drafting.py, core/agents/section.py), the targeted-editing *)
(* pipeline (core/agents/targeted_editing_nodes.py,                        *)
(* core/agents/section_editor.py) driven by targeted_edit, and the         *)
(* process-wide vector store (core/store.py).                              *)
(*                                                                         *)
(* Text is a sequence of one-character strings; None is a distinguished    *)
(* sequence.  Text produced by the language model is a tagged sequence     *)
(* naming the call that produced it.                                       *)
(***************************************************************************)
EXTENDS Integers, Sequences, FiniteSets, TLC

VARIABLES
    nreq,                \* number of top-level requests started so far
    runs,                \* the calls of generate / edit / targeted_edit, one per slot
    checkpointer,        \* InMemorySaver of the preparation graph: thread_id -> checkpoint
    vector_store,        \* core.store.vector_store: the store object the global names
    stores,              \* the InMemoryVectorStore objects still referenced: id -> chunks
    current_rag_params,  \* core.store.current_rag_params
    prepared,            \* history: sessions that have called generate
    lifecycle            \* history, per thread since the last generate: the session that
                         \* called it, the interrupts raised and the editor passes made

vars == <<nreq, runs, checkpointer, vector_store, stores, current_rag_params,
          prepared, lifecycle>>

-----------------------------------------------------------------------------
(* Bounds *)

MaxReq == 3         \* top-level requests in a behaviour
MaxConc == 2        \* calls in flight at once, orphaned sub-tasks included
MaxCorpusReq == 2   \* requests in the behaviours that exercise the corpus
MaxTitleLen == 3    \* characters of a section name given to the normalizer
MaxDocLines == 3    \* lines of a document given to the parser

Slots == 1..MaxConc

-----------------------------------------------------------------------------
(* Values *)

None == <<"None">>

Sessions == {"s1", "s2"}

\* Python truthiness of an Optional[str]
bool(s) == s # None /\ s # <<>>

-----------------------------------------------------------------------------
(* str and re operations the code applies to text *)

Whitespace == {" ", "\n", "\t"}

UpperCase == <<"A", "B", "C", "D", "E", "F", "G", "H", "I", "J", "K", "L", "M",
               "N", "O", "P", "Q", "R", "S", "T", "U", "V", "W", "X", "Y", "Z">>

LowerCase == <<"a", "b", "c", "d", "e", "f", "g", "h", "i", "j", "k", "l", "m",
               "n", "o", "p", "q", "r", "s", "t", "u", "v", "w", "x", "y", "z">>

Digits == {"0", "1", "2", "3", "4", "5", "6", "7", "8", "9"}

IsUpper(c) == \E i \in 1..Len(UpperCase) : UpperCase[i] = c
IsLower(c) == \E i \in 1..Len(LowerCase) : LowerCase[i] = c
IsAlpha(c) == IsUpper(c) \/ IsLower(c)

\* \w of the re module
IsWord(c) == IsAlpha(c) \/ c \in Digits \/ c = "_"

LowerChar(c) ==
    IF IsUpper(c) THEN LowerCase[CHOOSE i \in 1..Len(UpperCase) : UpperCase[i] = c] ELSE c

UpperChar(c) ==
    IF IsLower(c) THEN UpperCase[CHOOSE i \in 1..Len(LowerCase) : LowerCase[i] = c] ELSE c

\* str.lower()
lower(s) == [i \in 1..Len(s) |-> LowerChar(s[i])]

\* str.isupper(): some cased character and no lower-case one
isupper(s) ==
    /\ \E i \in 1..Len(s) : IsUpper(s[i])
    /\ \A i \in 1..Len(s) : ~IsLower(s[i])

\* str.title(): a letter is upper-cased after a non-letter and lower-cased after a letter
str_title(s) ==
    [i \in 1..Len(s) |->
        IF ~IsAlpha(s[i]) THEN s[i]
        ELSE IF i = 1 \/ ~IsAlpha(s[i - 1]) THEN UpperChar(s[i]) ELSE LowerChar(s[i])]

\* str.replace(old, new) for single characters
replace(s, old, new) == [i \in 1..Len(s) |-> IF s[i] = old THEN new ELSE s[i]]

RECURSIVE lstrip_chars(_, _)
lstrip_chars(s, chars) ==
    IF s # <<>> /\ Head(s) \in chars THEN lstrip_chars(Tail(s), chars) ELSE s

RECURSIVE rstrip_chars(_, _)
rstrip_chars(s, chars) ==
    IF s # <<>> /\ s[Len(s)] \in chars
    THEN rstrip_chars(SubSeq(s, 1, Len(s) - 1), chars)
    ELSE s

\* str.strip(chars)
strip_chars(s, chars) == rstrip_chars(lstrip_chars(s, chars), chars)

\* str.strip()
strip(s) == strip_chars(s, Whitespace)

\* str.endswith(tuple of single characters)
endswith(s, chars) == s # <<>> /\ s[Len(s)] \in chars

\* needle in hay
contains(hay, needle) ==
    \E i \in 0..(Len(hay) - Len(needle)) : SubSeq(hay, i + 1, i + Len(needle)) = needle

\* the first position from i on whose character is not in chars
RECURSIVE skip(_, _, _)
skip(s, i, chars) ==
    IF i <= Len(s) /\ s[i] \in chars THEN skip(s, i + 1, chars) ELSE i

\* the first position from i on whose character is in chars
RECURSIVE find(_, _, _)
find(s, i, chars) ==
    IF i <= Len(s) /\ s[i] \notin chars THEN find(s, i + 1, chars) ELSE i

\* str.split(sep) for a single character
RECURSIVE split(_, _)
split(s, sep) ==
    LET i == find(s, 1, {sep})
    IN  IF i > Len(s) THEN <<s>>
        ELSE <<SubSeq(s, 1, i - 1)>> \o split(SubSeq(s, i + 1, Len(s)), sep)

\* str.split(): the maximal runs of non-whitespace
RECURSIVE split_words(_)
split_words(s) ==
    LET i == skip(s, 1, Whitespace)
        j == find(s, i, Whitespace)
    IN  IF i > Len(s) THEN <<>>
        ELSE <<SubSeq(s, i, j - 1)>> \o split_words(SubSeq(s, j, Len(s)))

\* sep.join(parts)
RECURSIVE join(_, _)
join(parts, sep) ==
    IF parts = <<>> THEN <<>>
    ELSE IF Len(parts) = 1 THEN parts[1]
    ELSE parts[1] \o <<sep>> \o join(Tail(parts), sep)

\* re.sub(r'[class]+', new, s)
RECURSIVE collapse(_, _, _)
collapse(s, chars, new) ==
    IF s = <<>> THEN <<>>
    ELSE IF Head(s) \in chars
    THEN <<new>> \o collapse(SubSeq(s, skip(s, 1, chars), Len(s)), chars, new)
    ELSE <<Head(s)>> \o collapse(Tail(s), chars, new)

\* the position after the longest match of ^\d+(\.\d+)*\.? in s, or 1 without a match
RECURSIVE skip_number_groups(_, _)
skip_number_groups(s, i) ==
    IF i + 1 <= Len(s) /\ s[i] = "." /\ s[i + 1] \in Digits
    THEN skip_number_groups(s, skip(s, i + 1, Digits))
    ELSE i

numbering(s) ==
    LET i == skip(s, 1, Digits)
        j == skip_number_groups(s, i)
    IN  IF i = 1 THEN 1
        ELSE IF j <= Len(s) /\ s[j] = "." THEN j + 1 ELSE j

-----------------------------------------------------------------------------
(* Section tree: core/agents/state.py, core/agents/drafting.py *)

\* TemplateInstruction: only its presence is read by the workflow
Instruction == <<"objective">>

\* TemplateSectionDef as to_section_def builds it: content starts empty.
\* A dict of sections is the sequence of its values in insertion order.
TemplateSectionDef(title, source, instructions, subsections) ==
    [title |-> title, source |-> source, instructions |-> instructions,
     subsections |-> subsections, content |-> <<>>]

\* a variant that yields the subsections of a node before the node
RECURSIVE walk_sections_ChildrenFirst(_)
walk_sections_ChildrenFirst(sections) ==
    IF sections = <<>> THEN <<>>
    ELSE walk_sections_ChildrenFirst(Head(sections).subsections)
         \o <<Head(sections)>> \o walk_sections_ChildrenFirst(Tail(sections))

RECURSIVE walk_sections(_)
walk_sections(sections) ==
    IF sections = <<>> THEN <<>>
    ELSE <<Head(sections)>> \o walk_sections(Head(sections).subsections)
                            \o walk_sections(Tail(sections))

\* for s, c in zip(walk_sections(sections), contents): s.content = c
RECURSIVE fill_contents(_, _)
fill_contents(sections, contents) ==
    IF sections = <<>> \/ contents = <<>> THEN sections
    ELSE LET s == Head(sections)
             n == Len(walk_sections(s.subsections))
             m == Len(contents)
             sub == SubSeq(contents, 2, IF n + 1 < m THEN n + 1 ELSE m)
             rest == SubSeq(contents, n + 2, m)
         IN  <<[s EXCEPT !.content = contents[1],
                         !.subsections = fill_contents(s.subsections, sub)]>>
             \o fill_contents(Tail(sections), rest)

RECURSIVE collect_titles_with_same_source(_, _)
collect_titles_with_same_source(sections, source_file_name) ==
    IF sections = <<>> THEN <<>>
    ELSE LET s == Head(sections)
         IN  (IF s.source = source_file_name THEN <<s.title>> ELSE <<>>)
             \o collect_titles_with_same_source(s.subsections, source_file_name)
             \o collect_titles_with_same_source(Tail(sections), source_file_name)

-----------------------------------------------------------------------------
(* Document parsing: core/agents/targeted_editing_nodes.py *)

\* a dict is the sequence of its items in insertion order
dict_has(d, key) == \E i \in 1..Len(d) : d[i].key = key

dict_get(d, key) == d[CHOOSE i \in 1..Len(d) : d[i].key = key].value

\* d[key] = value: an existing key keeps its position
dict_set(d, key, value) ==
    IF dict_has(d, key)
    THEN [i \in 1..Len(d) |-> IF d[i].key = key THEN [key |-> key, value |-> value] ELSE d[i]]
    ELSE Append(d, [key |-> key, value |-> value])

SentenceWords ==
    { <<"t", "h", "e">>, <<"a">>, <<"a", "n">>, <<"i", "s">>, <<"a", "r", "e">>, <<"w", "a", "s">>, <<"w", "e", "r", "e">>, <<"t", "o">>,
      <<"o", "f">>, <<"i", "n">>, <<"o", "n">>, <<"f", "o", "r">>, <<"w", "i", "t", "h">>, <<"a", "t">>, <<"b", "y">> }

QuestionWords == { <<"h", "o", "w">>, <<"w", "h", "a", "t">>, <<"w", "h", "y">>, <<"w", "h", "e", "n">>, <<"w", "h", "e", "r", "e">>, <<"w", "h", "o">> }

SentencePunctuation == {".", ",", ";", "!", "?"}

is_heading(raw) ==
    LET line == strip(raw)
        words == split_words(line)
        word_count == Len(words)
        lower_words == {lower(words[i]) : i \in 1..word_count}
        n == numbering(line)
        m == skip(line, n, Whitespace)
        capitalized == Cardinality({i \in 1..word_count : IsUpper(words[i][1])})
    IN  IF line = <<>> THEN FALSE
        ELSE IF Len(line) > 100 THEN FALSE
        \* all caps
        ELSE IF isupper(line) /\ 3 < Len(line) /\ Len(line) < 80 THEN TRUE
        \* ^\d+(\.\d+)*\.?\s+[A-Z]
        ELSE IF n > 1 /\ m > n /\ m <= Len(line) /\ IsUpper(line[m]) THEN TRUE
        \* how / what / why / when / where / who
        ELSE IF /\ 2 <= word_count /\ word_count <= 12
                /\ ~endswith(line, SentencePunctuation)
                /\ lower(words[1]) \in QuestionWords
                /\ 2 * Cardinality((SentenceWords \cup {<<"a", "n", "d">>}) \cap lower_words) < word_count
        THEN TRUE
        \* title case
        ELSE /\ 2 <= word_count /\ word_count <= 12
             /\ 2 * capitalized >= word_count
             /\ ~endswith(line, SentencePunctuation)
             /\ Cardinality(SentenceWords \cap lower_words) <= 2

normalize_section_name(name) ==
    LET n == numbering(name)
        unnumbered == IF n = 1 THEN name
                      ELSE SubSeq(name, skip(name, n, Whitespace), Len(name))
        kept == SelectSeq(lower(unnumbered),
                          LAMBDA c : IsWord(c) \/ c \in Whitespace \/ c = "-")
    IN  strip_chars(collapse(kept, Whitespace \cup {"-"}, "_"), {"_"})

denormalize_section_name(key) == str_title(replace(key, "_", " "))

\* a variant that stores the joined lines as they are
save_section_Untrimmed(sections, current_section, current_content) ==
    IF bool(current_section)
    THEN dict_set(sections, normalize_section_name(current_section),
                  join(current_content, "\n"))
    ELSE sections

\* sections[normalize_section_name(current_section)] = '\n'.join(current_content).strip()
save_section(sections, current_section, current_content) ==
    IF bool(current_section)
    THEN dict_set(sections, normalize_section_name(current_section),
                  strip(join(current_content, "\n")))
    ELSE sections

RECURSIVE parse_lines(_, _, _, _)
parse_lines(lines, sections, current_section, current_content) ==
    IF lines = <<>> THEN save_section(sections, current_section, current_content)
    ELSE IF is_heading(Head(lines))
    THEN parse_lines(Tail(lines),
                     save_section(sections, current_section, current_content),
                     rstrip_chars(strip(Head(lines)), {":", "."}), <<>>)
    ELSE parse_lines(Tail(lines), sections, current_section,
                     IF bool(current_section) THEN Append(current_content, Head(lines))
                     ELSE current_content)

parse_document_structure(text) ==
    LET sections == parse_lines(split(text, "\n"), <<>>, None, <<>>)
    IN  IF sections = <<>>
        THEN <<[key |-> <<"m", "a", "i", "n", "_", "c", "o", "n", "t", "e", "n", "t">>, value |-> strip(text)]>>
        ELSE sections

-----------------------------------------------------------------------------
(* Inputs the callers supply *)

\* source_texts / reference_texts: the keys of the mapping, in order
SourceInputs == {<<>>, <<"a", "b">>}

SingleSection == <<TemplateSectionDef("A", "a", Instruction, <<>>)>>

\* a structural parent without instructions over two drafted subsections
NestedSections ==
    <<TemplateSectionDef("P", "", None,
        <<TemplateSectionDef("A", "a", Instruction, <<>>),
          TemplateSectionDef("B", "", Instruction, <<>>)>>)>>

\* a drafted parent over a drafted subsection, then a drafted sibling
DeepSections ==
    <<TemplateSectionDef("A", "a", Instruction,
        <<TemplateSectionDef("B", "b", Instruction, <<>>)>>),
      TemplateSectionDef("C", "", Instruction, <<>>)>>

SectionInputs == {SingleSection, NestedSections}

ExampleInputs == {None, <<>>, <<" ">>, <<"x">>}

QuestionInputs == {None, <<>>, <<" ">>, <<"q">>}

ContentInputs == {<<"d">>}

SectionChange(section_name, user_direction) ==
    [section_name |-> section_name, user_direction |-> user_direction]

\* an exemplar of two headed sections
TwoSectionDocument == <<"I", "N", "T", "R", "O", "\n", "x", "\n", "S", "C", "O", "P", "E", "\n", "y">>

ExampleDocuments == {TwoSectionDocument}

OneMatchingChange == <<SectionChange(<<"S", "c", "o", "p", "e">>, <<"u">>)>>

\* a change that matches a parsed section, then one that matches none
SectionChangeInputs ==
    { OneMatchingChange,
      OneMatchingChange \o <<SectionChange(<<"R", "i", "s", "k", "s">>, <<"v">>)>> }

\* an exemplar of three headed sections, the first of two paragraphs; the key of
\* the second is part of the key of the third
ThreeSectionDocument ==
    <<"I", "N", "T", "R", "O", "\n", "x", "\n", "\n", "w", "\n", "S", "C", "O", "P", "E", "\n", "y", "\n", "S", "C", "O", "P", "E", " ", "R", "I", "S", "K", "S", "\n", "z">>

\* requested names that qualify for one parsed key, for several, for none
ThreeSectionChanges ==
    LET ChangeScope == SectionChange(<<"S", "c", "o", "p", "e">>, <<"u">>)
        ChangeScopeAgain == SectionChange(<<"s", "c", "o", "p", "e">>, <<"w">>)
        ChangeRisks == SectionChange(<<"R", "i", "s", "k", "s">>, <<"v">>)
        ChangeIntroScope == SectionChange(<<"I", "n", "t", "r", "o", " ", "S", "c", "o", "p", "e">>, <<"u">>)
        ChangeBudget == SectionChange(<<"B", "u", "d", "g", "e", "t">>, <<"v">>)
        ChangeUnnamed == SectionChange(<<"!">>, <<"u">>)
    IN  { <<ChangeScope>>, <<ChangeBudget>>, <<ChangeIntroScope>>, <<ChangeUnnamed>>,
          <<ChangeScope, ChangeRisks>>, <<ChangeScope, ChangeBudget>>,
          <<ChangeScope, ChangeScopeAgain>> }

-----------------------------------------------------------------------------
(* Retrieval corpus: core/store.py, core/config/rag_config.py *)

DefaultRagParameters ==
    [similarity_threshold |-> 60, top_k |-> 5, chunk_size |-> 512, overlap |-> 15]

\* rag_params = None
NoRagParameters == [none |-> TRUE]

\* similarity_threshold is kept in hundredths
RagInputs ==
    {NoRagParameters,
     [similarity_threshold |-> 80, top_k |-> 3, chunk_size |-> 256, overlap |-> 10],
     [similarity_threshold |-> 50, top_k |-> 10, chunk_size |-> 1024, overlap |-> 25],
     [similarity_threshold |-> 60, top_k |-> 5, chunk_size |-> 256, overlap |-> 50],
     [similarity_threshold |-> 60, top_k |-> 5, chunk_size |-> 512, overlap |-> 0]}

\* the ranges of the fields of RagParameters, similarity_threshold in hundredths
FieldRanges ==
    [similarity_threshold |-> [ge |-> 0, le |-> 100],
     top_k |-> [ge |-> 1, le |-> 50],
     chunk_size |-> [ge |-> 100, le |-> 2000],
     overlap |-> [ge |-> 0, le |-> 50]]

\* Field(ge=..., le=...): the names of the fields whose value is out of range
FieldErrors(values) ==
    { f \in DOMAIN FieldRanges :
        values[f] < FieldRanges[f].ge \/ values[f] > FieldRanges[f].le }

allowed_values == <<256, 512, 1024>>

\* the last of the nearest, not the first
validate_chunk_size_LastNearest(v) ==
    LET abs(x) == IF x < 0 THEN -x ELSE x
        closest == CHOOSE i \in 1..Len(allowed_values) :
                      /\ \A j \in 1..Len(allowed_values) :
                            abs(allowed_values[i] - v) <= abs(allowed_values[j] - v)
                      /\ \A j \in (i + 1)..Len(allowed_values) :
                            abs(allowed_values[j] - v) > abs(allowed_values[i] - v)
    IN  IF \E i \in 1..Len(allowed_values) : allowed_values[i] = v
        THEN v
        ELSE allowed_values[closest]

\* min(allowed_values, key=lambda x: abs(x - v)): the first of the nearest
validate_chunk_size(v) ==
    LET abs(x) == IF x < 0 THEN -x ELSE x
        closest == CHOOSE i \in 1..Len(allowed_values) :
                      /\ \A j \in 1..Len(allowed_values) :
                            abs(allowed_values[i] - v) <= abs(allowed_values[j] - v)
                      /\ \A j \in 1..(i - 1) :
                            abs(allowed_values[j] - v) > abs(allowed_values[i] - v)
    IN  IF \E i \in 1..Len(allowed_values) : allowed_values[i] = v
        THEN v
        ELSE allowed_values[closest]

\* the validator running before the range check of its field
RagParameters_SnapFirst(similarity_threshold, top_k, chunk_size, overlap) ==
    LET values == [similarity_threshold |-> similarity_threshold, top_k |-> top_k,
                   chunk_size |-> validate_chunk_size(chunk_size), overlap |-> overlap]
    IN  IF FieldErrors(values) # {}
        THEN [error |-> "ValidationError", fields |-> FieldErrors(values)]
        ELSE values

\* RagParameters(...): each field is checked against its range; the validator
\* of chunk_size runs on a value that passed
RagParameters(similarity_threshold, top_k, chunk_size, overlap) ==
    LET values == [similarity_threshold |-> similarity_threshold, top_k |-> top_k,
                   chunk_size |-> chunk_size, overlap |-> overlap]
    IN  IF FieldErrors(values) # {}
        THEN [error |-> "ValidationError", fields |-> FieldErrors(values)]
        ELSE [values EXCEPT !.chunk_size = validate_chunk_size(chunk_size)]

\* the new store keeps the chunks of the store it replaces
clear_store_Keep(chunks) == chunks

\* clear_store: the global names a new, empty InMemoryVectorStore; chunks are
\* those of the store it replaces
clear_store(chunks) == {}

\* the quotient rounded up, not down
chunk_overlap_tokens_Ceil(params) == (params.chunk_size * params.overlap + 99) \div 100

\* int(chunk_size * (overlap / 100.0))
chunk_overlap_tokens(params) == (params.chunk_size * params.overlap) \div 100

\* add_sources: every chunk is tagged with its source id; req names the request
\* whose add_sources call loaded it.
add_sources(source_texts, params, req) ==
    { [source |-> source_texts[i], req |-> req, chunk_size |-> params.chunk_size,
       chunk_overlap |-> chunk_overlap_tokens(params)]
        : i \in 1..Len(source_texts) }

\* as_retriever is never passed rag_params: k and score_threshold are those of
\* the global current_rag_params
search_kwargs ==
    [store |-> -1, filter |-> "none", sources |-> {},
     k |-> current_rag_params.top_k,
     score_threshold |-> current_rag_params.similarity_threshold]

\* a retriever without a source filter, whatever the list
as_retriever_NoFilter(limit_to_sources, store) == [search_kwargs EXCEPT !.store = store]

\* as_retriever: the retriever keeps the store object the global names now
as_retriever(limit_to_sources, store) ==
    CASE limit_to_sources = <<>> \/ limit_to_sources = <<"">> ->
            [search_kwargs EXCEPT !.store = store]
      [] Len(limit_to_sources) = 1 ->
            [search_kwargs EXCEPT !.store = store, !.filter = "$eq",
                                  !.sources = {limit_to_sources[1]}]
      [] OTHER ->
            [search_kwargs EXCEPT !.store = store, !.filter = "$in",
                                  !.sources = {limit_to_sources[i] :
                                                  i \in 1..Len(limit_to_sources)}]

\* the chunks a similarity search through the retriever can return
search(retriever) ==
    IF retriever.store \notin DOMAIN stores THEN {}
    ELSE { c \in stores[retriever.store] :
             retriever.filter = "none" \/ c.source \in retriever.sources }

-----------------------------------------------------------------------------
(* The preparation graph and its checkpointer: core/agents/graph.py *)

\* get_agent_config: the thread id the session's calls run under
get_agent_config(session) == "1"

ThreadIds == {get_agent_config(s) : s \in Sessions}

NoCheckpoint == [next |-> "none"]

\* DocumentPreparationState as generate constructs it
DocumentPreparationState(sections, source_texts, example_document_text) ==
    [sections |-> sections,
     source_texts |-> source_texts,
     source_extractions |-> <<>>,
     style_guidelines |-> None,
     example_document_text |-> example_document_text,
     revision_question |-> <<>>,
     revision |-> <<>>]

\* the exemplar is tested for truthiness only
should_extract_style_NoStrip(state) ==
    IF bool(state.example_document_text) THEN "style_extractor_node" ELSE "drafting_node"

should_extract_style(state) ==
    IF bool(state.example_document_text) /\ bool(strip(state.example_document_text))
    THEN "style_extractor_node"
    ELSE "drafting_node"

revision_required(state) == bool(state.revision_question)

\* the unconditional edges of the graph
after_start == "extractor_node"
after_style_extractor == "drafting_node"
\* the draft stage is wired to the editor
after_drafting_ToEditor == "editor_node"
after_drafting == "human_revision_node"
\* the editor ends the graph instead of looping back
after_editor_ToEnd == "__end__"
after_editor == "human_revision_node"

\* the conditional edge always ends the graph
after_human_revision_AlwaysEnd(state) == "__end__"

\* the node the conditional edge after human_revision_node leads to
after_human_revision(state) ==
    IF revision_required(state) THEN "editor_node" ELSE "__end__"

-----------------------------------------------------------------------------
(* Calls in flight *)

NoResume == [none |-> TRUE]

NoRetriever == [store |-> -1, filter |-> "none", sources |-> {}, k |-> 0, score_threshold |-> 0]

IdleRun ==
    [id |-> 0, kind |-> "none", session |-> "none", args |-> [none |-> TRUE],
     loaded |-> [next |-> "none"], sync |-> FALSE, status |-> "idle", pc |-> "none",
     st |-> [none |-> TRUE], resume |-> NoResume, tasks |-> <<>>, finished |-> <<>>,
     result |-> None, saved |-> <<>>, error |-> ""]

\* a sub-task of a fan-out stage has ended
Ended(task) == task.pc \in {"done", "failed"}

\* the call in slot r has returned or raised and none of its sub-tasks still runs
Free(r) ==
    /\ runs[r].status # "running"
    /\ \A i \in 1..Len(runs[r].tasks) : Ended(runs[r].tasks[i])

Quiescent == \A r \in Slots : Free(r)

\* no top-level request is in flight
NoRequestInFlight == \A r \in Slots : runs[r].status # "running"

\* when the environment starts a request: "idle", once every call and sub-task
\* has ended; "sequential", once every call has returned or raised; "overlap",
\* at any time
Admitted(overlap) ==
    CASE overlap = "idle" -> Quiescent
      [] overlap = "sequential" -> NoRequestInFlight
      [] OTHER -> TRUE

\* a new call takes the lowest free slot
NextSlot(r) == Free(r) /\ \A q \in Slots : q < r => ~Free(q)

\* store objects some running sub-task's retriever still references; the other
\* store objects a clear_store call has replaced are garbage
LiveStores ==
    UNION { { runs[r].tasks[i].retriever.store :
                i \in {j \in 1..Len(runs[r].tasks) : ~Ended(runs[r].tasks[j])} }
            : r \in Slots }

\* InMemorySaver.put: the checkpoint written after a step of the graph
put(thread, next, values) ==
    [checkpointer EXCEPT ![thread] = [next |-> next, values |-> values]]

\* text the language model returns, tagged with the call that asked for it
QueryAnswer(req, i) == <<"query", ToString(req), ToString(i)>>
Draft(req, i) == <<"draft", ToString(req), ToString(i)>>
EditorAnswer(document, question) == <<"edited">> \o document
Rewrite(req, i) == <<"rewrite", ToString(req), ToString(i)>>
RewriteTitle(req, i) == <<"title", ToString(req), ToString(i)>>

-----------------------------------------------------------------------------
(* generate: core/document.py *)

\* The call runs without suspending from clear_store to the first step of
\* graph.ainvoke, which writes the input state to the thread's checkpoint.
generate(r, overlap, session, sections, source_texts, example_document_text, rag_params) ==
    LET id == nreq + 1
        params == IF rag_params = NoRagParameters THEN current_rag_params ELSE rag_params
        state == DocumentPreparationState(sections, source_texts, example_document_text)
        thread == get_agent_config(session)
        kept == LiveStores \cup {id}
        run == [IdleRun EXCEPT !.id = id, !.kind = "generate", !.session = session,
                               !.args = [rag_params |-> rag_params], !.st = state]
    IN  /\ nreq < MaxReq
        /\ Admitted(overlap)
        /\ NextSlot(r)
        /\ nreq' = id
        /\ prepared' = prepared \cup {session}
        /\ vector_store' = id
        /\ current_rag_params' = params
        /\ IF source_texts = <<>>
           THEN \* prepare_documents cannot unpack an empty zip: add_sources raises
                /\ stores' = [k \in kept |-> IF k = id THEN clear_store(stores[vector_store])
                                               ELSE stores[k]]
                /\ runs' = [runs EXCEPT ![r] =
                               [run EXCEPT !.status = "error", !.pc = "add_sources",
                                           !.error = "ValueError"]]
                /\ UNCHANGED <<checkpointer, lifecycle>>
           ELSE /\ stores' = [k \in kept |->
                                IF k = id
                                THEN clear_store(stores[vector_store])
                                        \cup add_sources(source_texts, params, id)
                                ELSE stores[k]]
                /\ runs' = [runs EXCEPT ![r] =
                               [run EXCEPT !.status = "running", !.pc = after_start]]
                /\ checkpointer' = put(thread, after_start, state)
                /\ lifecycle' = [lifecycle EXCEPT ![thread] =
                                    [owner |-> session, interrupts |-> 0, edits |-> 0]]

Running(r, node) == runs[r].status = "running" /\ runs[r].pc = node

\* what the call hands back when the graph stops: generate returns
\* report_state["sections"], edit returns edited_state["revision"], targeted_edit
\* returns final_state
ReturnValue(run, state) ==
    CASE run.kind = "generate" -> state.sections
      [] run.kind = "edit" -> state.revision
      [] OTHER -> state

\* the call returns: its local state is dropped, the caller holds the value
Returned(run, status, state) ==
    [run EXCEPT !.status = status, !.result = ReturnValue(run, state),
                !.st = IdleRun.st, !.resume = NoResume,
                !.tasks = <<>>, !.finished = <<>>]

\* a node of the preparation graph completes: the state update is applied and
\* checkpointed, and the run moves to the node the edges name, or returns when
\* they name END; a resume value no interrupt() took in this step is not carried
\* to the next
Advance(r, state, next) ==
    /\ runs' = [runs EXCEPT ![r] =
                   IF next = "__end__"
                   THEN Returned([@ EXCEPT !.pc = next], "done", state)
                   ELSE [@ EXCEPT !.st = state, !.pc = next, !.resume = NoResume,
                                  !.tasks = <<>>, !.finished = <<>>]]
    /\ checkpointer' = put(get_agent_config(runs[r].session), next, state)

\* a node raises: the call raises to its caller; the thread keeps the checkpoint
\* written before the node
Raise(r, exc) ==
    /\ runs' = [runs EXCEPT ![r].status = "error", ![r].st = IdleRun.st,
                             ![r].resume = NoResume, ![r].error = exc]
    /\ UNCHANGED checkpointer

-----------------------------------------------------------------------------
(* extractor_node: core/agents/extractor.py *)

ExtractorAnswers == {"json", "malformed", "raise"}

extract_key_data(sections, source_file_name) ==
    <<source_file_name, collect_titles_with_same_source(sections, source_file_name)>>

extractor_node(r, answer) ==
    LET st == runs[r].st
        extractions == [i \in 1..Len(st.source_texts) |->
                            extract_key_data(st.sections, st.source_texts[i])]
        state == [st EXCEPT !.source_extractions = extractions]
    IN  /\ Running(r, "extractor_node")
        /\ IF answer = "json"
           THEN Advance(r, state, should_extract_style(state))
           ELSE IF answer = "malformed"
           THEN Raise(r, "JSONDecodeError")   \* json.loads is not guarded
           ELSE Raise(r, "Exception")         \* agent.invoke raises
        /\ UNCHANGED <<nreq, vector_store, stores, current_rag_params, prepared, lifecycle>>

-----------------------------------------------------------------------------
(* style_extractor_node: core/agents/style_extractor.py *)

StyleAnswers == {"json", "text", "malformed", "raise"}

parse_style_response(answer) ==
    CASE answer = "json" -> <<"parsed">>
      [] answer = "text" -> <<"raw_analysis", "extraction_note">>
      [] OTHER -> <<"raw_analysis", "parse_error">>

style_extractor_node(r, answer) ==
    LET st == runs[r].st
    IN  /\ Running(r, "style_extractor_node")
        /\ IF ~(bool(st.example_document_text) /\ bool(strip(st.example_document_text)))
           THEN Advance(r, [st EXCEPT !.style_guidelines = None], after_style_extractor)
           ELSE IF answer = "raise"
           THEN Raise(r, "Exception")
           ELSE Advance(r, [st EXCEPT !.style_guidelines = parse_style_response(answer)],
                        after_style_extractor)
        /\ UNCHANGED <<nreq, vector_store, stores, current_rag_params, prepared, lifecycle>>

-----------------------------------------------------------------------------
(* drafting_node: core/agents/drafting.py, core/agents/section.py *)

\* The state of one sub-task of a fan-out: sources is the list its retrievers are
\* limited to, retriever the one bound when its graph was built, seen the chunks
\* its searches returned, content the text it produced; key, title and original
\* are the parsed section a rewrite works on.
NoTask ==
    [pc |-> "done", sources |-> <<>>, retriever |-> NoRetriever, seen |-> {},
     content |-> <<>>, key |-> None, title |-> <<>>, original |-> <<>>, error |-> ""]

\* fetch_section_draft up to graph.ainvoke: create_section_graph binds the
\* retrieve node's retriever; a section without instructions yields "" at once
fetch_section_draft(section) ==
    IF section.instructions # None
    THEN [NoTask EXCEPT !.pc = "query_node", !.sources = <<section.source>>,
                        !.retriever = as_retriever(<<section.source>>, vector_store)]
    ELSE NoTask

\* the sub-tasks that end without suspending, in launch order
RECURSIVE EndedIndices(_, _)
EndedIndices(tasks, n) ==
    IF n = 0 THEN <<>>
    ELSE EndedIndices(tasks, n - 1) \o (IF Ended(tasks[n]) THEN <<n>> ELSE <<>>)

\* draft_sections up to the await: one sub-task per node of the walk
draft_sections(r) ==
    LET walk == walk_sections(runs[r].st.sections)
        tasks == [i \in 1..Len(walk) |-> fetch_section_draft(walk[i])]
    IN  /\ Running(r, "drafting_node")
        /\ IF runs[r].sync
           THEN Raise(r, "TypeError")   \* an async node has no synchronous function
           ELSE /\ runs' = [runs EXCEPT ![r].pc = "drafting_node:gather",
                                        ![r].tasks = tasks,
                                        ![r].finished = EndedIndices(tasks, Len(tasks))]
                /\ UNCHANGED checkpointer
        /\ UNCHANGED <<nreq, vector_store, stores, current_rag_params, prepared, lifecycle>>

TaskAt(r, i, node) ==
    /\ i \in 1..Len(runs[r].tasks)
    /\ runs[r].tasks[i].pc = node

SetTask(r, i, task) ==
    runs' = [runs EXCEPT ![r].tasks[i] = task,
                         ![r].finished = IF Ended(task) THEN @ \o <<i>> ELSE @]

QueryAnswers == {"answer", "search_answer", "tool_calls", "raise"}

\* query_node of the section graph: the agent holds a retriever made now; it
\* answers, with or without searching, or ends on a tool call, or raises
query_node(r, i, answer) ==
    LET task == runs[r].tasks[i]
        retriever == as_retriever(task.sources, vector_store)
    IN  /\ TaskAt(r, i, "query_node")
        /\ CASE answer = "answer" ->
                    SetTask(r, i, [task EXCEPT !.pc = "done",
                                               !.content = QueryAnswer(runs[r].id, i)])
             [] answer = "search_answer" ->
                    SetTask(r, i, [task EXCEPT !.pc = "done",
                                               !.seen = @ \cup search(retriever),
                                               !.content = QueryAnswer(runs[r].id, i)])
             [] answer = "tool_calls" ->
                    SetTask(r, i, [task EXCEPT !.pc = "retrieve",
                                               !.content = QueryAnswer(runs[r].id, i)])
             [] OTHER ->
                    SetTask(r, i, [task EXCEPT !.pc = "failed", !.error = "Exception"])
        /\ UNCHANGED <<nreq, checkpointer, vector_store, stores, current_rag_params, prepared, lifecycle>>

\* the edge out of the retrieve node: section.py, section_editor.py
after_retrieve(kind) ==
    IF kind = "targeted_edit" THEN "edit_section_with_llm_node" ELSE "drafting_node"

\* retrieve: the ToolNode searches through the retriever bound when the graph was built
retrieve(r, i) ==
    LET task == runs[r].tasks[i]
    IN  /\ TaskAt(r, i, "retrieve")
        /\ SetTask(r, i, [task EXCEPT !.pc = after_retrieve(runs[r].kind),
                                      !.seen = @ \cup search(task.retriever)])
        /\ UNCHANGED <<nreq, checkpointer, vector_store, stores, current_rag_params, prepared, lifecycle>>

\* drafting_node of the section graph
section_drafting_node(r, i, ok) ==
    LET task == runs[r].tasks[i]
    IN  /\ TaskAt(r, i, "drafting_node")
        /\ IF ok
           THEN SetTask(r, i, [task EXCEPT !.pc = "done", !.content = Draft(runs[r].id, i)])
           ELSE SetTask(r, i, [task EXCEPT !.pc = "failed", !.error = "Exception"])
        /\ UNCHANGED <<nreq, checkpointer, vector_store, stores, current_rag_params, prepared, lifecycle>>

\* contents in the order the sub-tasks completed
gather_CompletionOrder(tasks, finished) ==
    [k \in 1..Len(tasks) |-> tasks[finished[k]].content]

\* contents, as asyncio.gather returns them: in the order the sub-tasks were passed
gather(tasks, finished) == [i \in 1..Len(tasks) |-> tasks[i].content]

\* draft_sections had it written each content as its sub-task completed: a
\* failure leaves the contents of the completed sub-tasks in the saved state
drafting_node_PartialWrite(r) ==
    LET run == runs[r]
        contents == gather(run.tasks, run.finished)
        state == [run.st EXCEPT !.sections = fill_contents(run.st.sections, contents)]
    IN  /\ Running(r, "drafting_node:gather")
        /\ IF \E i \in 1..Len(run.tasks) : run.tasks[i].pc = "failed"
           THEN /\ \E i \in 1..Len(run.tasks) :
                      /\ run.tasks[i].pc = "failed"
                      /\ runs' = [runs EXCEPT ![r].status = "error", ![r].st = IdleRun.st,
                                              ![r].resume = NoResume,
                                              ![r].error = run.tasks[i].error]
                /\ checkpointer' = put(get_agent_config(run.session), run.pc, state)
           ELSE /\ \A i \in 1..Len(run.tasks) : run.tasks[i].pc = "done"
                /\ runs' = [runs EXCEPT ![r].st = state, ![r].pc = after_drafting]
                /\ checkpointer' = put(get_agent_config(run.session), after_drafting, state)
        /\ UNCHANGED <<nreq, vector_store, stores, current_rag_params, prepared, lifecycle>>

\* draft_sections after the await, and the node's return
drafting_node(r) ==
    LET run == runs[r]
        contents == gather(run.tasks, run.finished)
        state == [run.st EXCEPT !.sections = fill_contents(run.st.sections, contents)]
    IN  /\ Running(r, "drafting_node:gather")
        /\ IF \E i \in 1..Len(run.tasks) : run.tasks[i].pc = "failed"
           THEN \* gather raises the first exception; the other sub-tasks keep running
                \E i \in 1..Len(run.tasks) :
                    run.tasks[i].pc = "failed" /\ Raise(r, run.tasks[i].error)
           ELSE /\ \A i \in 1..Len(run.tasks) : run.tasks[i].pc = "done"
                /\ runs' = [runs EXCEPT ![r].st = state, ![r].pc = after_drafting]
                /\ checkpointer' = put(get_agent_config(run.session), after_drafting, state)
        /\ UNCHANGED <<nreq, vector_store, stores, current_rag_params, prepared, lifecycle>>

-----------------------------------------------------------------------------
(* human_revision_node, editor_node: core/agents/editor.py *)

\* interrupt() returns the resume value when the call carries one and raises
\* GraphInterrupt otherwise; the node returns the resume value as its update and
\* the conditional edge on revision_required follows
\* the node never interrupts: without a resume value it returns no update
human_revision_node_NoInterrupt(r) ==
    LET run == runs[r]
        state == IF run.resume = NoResume THEN run.st
                 ELSE [run.st EXCEPT !.revision_question = run.resume.revision_question,
                                     !.revision = run.resume.revision]
        next == after_human_revision(state)
    IN  /\ Running(r, "human_revision_node")
        /\ runs' = [runs EXCEPT ![r] =
                       IF next = "__end__"
                       THEN Returned([run EXCEPT !.pc = next], "done", state)
                       ELSE [run EXCEPT !.st = state, !.pc = next, !.resume = NoResume]]
        /\ checkpointer' = put(get_agent_config(run.session), next, state)
        /\ UNCHANGED <<nreq, vector_store, stores, current_rag_params, prepared, lifecycle>>

human_revision_node(r) ==
    LET run == runs[r]
        state == [run.st EXCEPT !.revision_question = run.resume.revision_question,
                                !.revision = run.resume.revision]
        next == after_human_revision(state)
        thread == get_agent_config(run.session)
    IN  /\ Running(r, "human_revision_node")
        /\ IF run.resume = NoResume
           THEN /\ runs' = [runs EXCEPT ![r] = Returned(run, "interrupted", run.st)]
                /\ lifecycle' = [lifecycle EXCEPT ![thread].interrupts = @ + 1]
                /\ UNCHANGED checkpointer
           ELSE /\ runs' = [runs EXCEPT ![r] =
                               IF next = "__end__"
                               THEN Returned([run EXCEPT !.pc = next], "done", state)
                               ELSE [run EXCEPT !.st = state, !.pc = next,
                                                !.resume = NoResume]]
                /\ checkpointer' = put(thread, next, state)
                /\ UNCHANGED lifecycle
        /\ UNCHANGED <<nreq, vector_store, stores, current_rag_params, prepared>>

editor_node(r, ok) ==
    LET st == runs[r].st
        revision == EditorAnswer(st.revision, st.revision_question)
    IN  /\ Running(r, "editor_node")
        /\ IF ok
           THEN /\ Advance(r, [st EXCEPT !.revision = revision], after_editor)
                /\ lifecycle' = [lifecycle EXCEPT
                                    ![get_agent_config(runs[r].session)].edits = @ + 1]
           ELSE /\ Raise(r, "Exception")
                /\ UNCHANGED lifecycle
        /\ UNCHANGED <<nreq, vector_store, stores, current_rag_params, prepared>>

-----------------------------------------------------------------------------
(* edit: core/document.py *)

\* graph.invoke(Command(resume=values)) continues the thread's checkpoint from
\* the node it names.  A thread without a checkpoint yields no state, and
\* edited_state["revision"] raises; a thread whose graph has ended has nothing
\* to run and yields its state as it is.
edit(r, overlap, session, question, content) ==
    LET cp == checkpointer[get_agent_config(session)]
        thread == get_agent_config(session)
        run == [IdleRun EXCEPT !.id = nreq + 1, !.kind = "edit", !.session = session,
                               !.args = [question |-> question, content |-> content],
                               !.sync = TRUE]
        \* what the call found on the thread: the node to continue from, the
        \* revision text held there, and (history) whose generate call wrote it
        Loaded(c) == [next |-> c.next, revision |-> c.values.revision,
                      owner |-> lifecycle[thread].owner]
    IN  /\ nreq < MaxReq
        /\ Admitted(overlap)
        /\ NextSlot(r)
        /\ nreq' = nreq + 1
        /\ CASE cp = NoCheckpoint ->
                    runs' = [runs EXCEPT ![r] = [run EXCEPT !.status = "error"]]
             [] cp # NoCheckpoint /\ cp.next = "__end__" ->
                    runs' = [runs EXCEPT ![r] =
                                Returned([run EXCEPT !.pc = cp.next, !.loaded = Loaded(cp)],
                                         "done", cp.values)]
             [] OTHER ->
                    runs' = [runs EXCEPT ![r] =
                                [run EXCEPT !.status = "running", !.pc = cp.next,
                                            !.loaded = Loaded(cp), !.st = cp.values,
                                            !.resume = [revision_question |-> question,
                                                        revision |-> content]]]
        /\ UNCHANGED <<checkpointer, vector_store, stores, current_rag_params,
                       prepared, lifecycle>>

-----------------------------------------------------------------------------
(* targeted_edit: core/document.py, core/agents/targeted_editing_graph.py,
   core/agents/targeted_editing_nodes.py, core/agents/section_editor.py *)

\* TargetedEditingState as targeted_edit constructs it
TargetedEditingState(example_document_text, reference_texts, section_changes) ==
    [example_document_text |-> example_document_text,
     reference_texts |-> reference_texts,
     section_changes |-> section_changes,
     example_sections |-> <<>>,
     modified_sections |-> <<>>,
     stats |-> <<>>]

\* The call runs without suspending from clear_store to the first step of
\* graph.ainvoke.  Each call compiles its own graph with its own MemorySaver, so
\* no checkpoint outlives it.
targeted_edit(r, overlap, example_document_text, reference_texts, section_changes, rag_params) ==
    LET id == nreq + 1
        params == IF rag_params = NoRagParameters THEN current_rag_params ELSE rag_params
        state == TargetedEditingState(example_document_text, reference_texts, section_changes)
        kept == LiveStores \cup {id}
        run == [IdleRun EXCEPT !.id = id, !.kind = "targeted_edit",
                               !.args = [rag_params |-> rag_params], !.st = state]
    IN  /\ nreq < MaxReq
        /\ Admitted(overlap)
        /\ NextSlot(r)
        /\ nreq' = id
        /\ vector_store' = id
        /\ current_rag_params' = params
        /\ IF reference_texts = <<>>
           THEN \* prepare_documents cannot unpack an empty zip: add_sources raises
                /\ stores' = [k \in kept |-> IF k = id THEN clear_store(stores[vector_store])
                                               ELSE stores[k]]
                /\ runs' = [runs EXCEPT ![r] =
                               [run EXCEPT !.status = "error", !.pc = "add_sources",
                                           !.error = "ValueError"]]
           ELSE /\ stores' = [k \in kept |->
                                IF k = id
                                THEN clear_store(stores[vector_store])
                                        \cup add_sources(reference_texts, params, id)
                                ELSE stores[k]]
                /\ runs' = [runs EXCEPT ![r] =
                               [run EXCEPT !.status = "running", !.pc = "parse_example"]]
        /\ UNCHANGED <<checkpointer, prepared, lifecycle>>

parse_example_node(r) ==
    LET st == runs[r].st
        sections == parse_document_structure(st.example_document_text)
        enhanced == [i \in 1..Len(sections) |->
                        [key |-> sections[i].key,
                         value |-> [key |-> sections[i].key,
                                    title |-> denormalize_section_name(sections[i].key),
                                    content |-> sections[i].value]]]
    IN  /\ Running(r, "parse_example")
        /\ runs' = [runs EXCEPT ![r].st.example_sections = enhanced,
                                ![r].pc = "edit_sections"]
        /\ UNCHANGED <<nreq, checkpointer, vector_store, stores, current_rag_params,
                       prepared, lifecycle>>

\* for key in example_sections.keys(): the first key that contains section_key
\* or is contained in it; 0 when there is none
\* the last key that qualifies, not the first
RECURSIVE first_match_Last(_, _, _)
first_match_Last(example_sections, section_key, i) ==
    IF i > Len(example_sections) THEN 0
    ELSE LET later == first_match_Last(example_sections, section_key, i + 1)
         IN  IF later # 0 THEN later
             ELSE IF \/ contains(example_sections[i].key, section_key)
                     \/ contains(section_key, example_sections[i].key)
             THEN i
             ELSE 0

\* for key in example_sections.keys(): ... break
RECURSIVE first_match(_, _, _)
first_match(example_sections, section_key, i) ==
    IF i > Len(example_sections) THEN 0
    ELSE IF \/ contains(example_sections[i].key, section_key)
            \/ contains(section_key, example_sections[i].key)
    THEN i
    ELSE first_match(example_sections, section_key, i + 1)

\* edit_single_section up to graph.ainvoke
edit_single_section(section_change, example_sections, sources, retriever) ==
    LET section_key == normalize_section_name(section_change.section_name)
        m == first_match(example_sections, section_key, 1)
    IN  IF m = 0 \/ ~bool(example_sections[m].key)
        THEN NoTask   \* (None, None)
        ELSE [NoTask EXCEPT !.pc = "query", !.sources = sources, !.retriever = retriever,
                            !.key = example_sections[m].key,
                            !.title = example_sections[m].value.title,
                            !.original = example_sections[m].value.content]

\* edit_sections_node up to the await: create_section_editing_graph binds the
\* retrieve node's retriever once, then one sub-task per requested change
edit_tasks(r) ==
    LET st == runs[r].st
        sources == st.reference_texts
        retriever == as_retriever(sources, vector_store)
        tasks == [i \in 1..Len(st.section_changes) |->
                    edit_single_section(st.section_changes[i], st.example_sections,
                                        sources, retriever)]
    IN  /\ Running(r, "edit_sections")
        /\ runs' = [runs EXCEPT ![r].pc = "edit_sections:gather",
                                ![r].tasks = tasks,
                                ![r].finished = EndedIndices(tasks, Len(tasks))]
        /\ UNCHANGED <<nreq, checkpointer, vector_store, stores, current_rag_params,
                       prepared, lifecycle>>

\* query node of the section-editing graph.  When the agent's last message holds
\* no tool call the graph ends with new_content never written, and
\* edit_single_section raises on result['new_content'].
query_node_for_section_editing(r, i, answer) ==
    LET task == runs[r].tasks[i]
        retriever == as_retriever(task.sources, vector_store)
    IN  /\ TaskAt(r, i, "query")
        /\ CASE answer = "answer" ->
                    SetTask(r, i, [task EXCEPT !.pc = "failed", !.error = "KeyError"])
             [] answer = "search_answer" ->
                    SetTask(r, i, [task EXCEPT !.pc = "failed", !.error = "KeyError",
                                               !.seen = @ \cup search(retriever)])
             [] answer = "tool_calls" ->
                    SetTask(r, i, [task EXCEPT !.pc = "retrieve"])
             [] OTHER ->
                    SetTask(r, i, [task EXCEPT !.pc = "failed", !.error = "Exception"])
        /\ UNCHANGED <<nreq, checkpointer, vector_store, stores, current_rag_params,
                       prepared, lifecycle>>

RewriteAnswers == {"json", "empty", "malformed", "raise"}

edit_section_with_llm_node(r, i, answer) ==
    LET task == runs[r].tasks[i]
    IN  /\ TaskAt(r, i, "edit_section_with_llm_node")
        /\ CASE answer = "json" ->
                    SetTask(r, i, [task EXCEPT !.pc = "done",
                                               !.title = RewriteTitle(runs[r].id, i),
                                               !.content = Rewrite(runs[r].id, i)])
             [] answer = "empty" ->   \* no content in the answer: the original is kept
                    SetTask(r, i, [task EXCEPT !.pc = "done", !.content = task.original])
             [] answer = "malformed" ->   \* json.loads is not guarded
                    SetTask(r, i, [task EXCEPT !.pc = "failed", !.error = "JSONDecodeError"])
             [] OTHER ->                  \* model.invoke raises
                    SetTask(r, i, [task EXCEPT !.pc = "failed", !.error = "Exception"])
        /\ UNCHANGED <<nreq, checkpointer, vector_store, stores, current_rag_params,
                       prepared, lifecycle>>

\* the results of the sections not found kept too, under the key None
RECURSIVE collect_results_KeepSkipped(_, _)
collect_results_KeepSkipped(results, n) ==
    IF n = 0 THEN <<>>
    ELSE dict_set(collect_results_KeepSkipped(results, n - 1), results[n].key,
                  [title |-> results[n].title, content |-> results[n].content])

\* a key that already has an entry keeps it: the first result for a section stays
RECURSIVE collect_results_FirstWins(_, _)
collect_results_FirstWins(results, n) ==
    IF n = 0 THEN <<>>
    ELSE LET modified_sections == collect_results_FirstWins(results, n - 1)
         IN  IF results[n].key # None /\ ~dict_has(modified_sections, results[n].key)
             THEN dict_set(modified_sections, results[n].key,
                           [title |-> results[n].title, content |-> results[n].content])
             ELSE modified_sections

\* for matching_key, section_data in results: modified_sections[matching_key] = section_data
RECURSIVE collect_results(_, _)
collect_results(results, n) ==
    IF n = 0 THEN <<>>
    ELSE LET modified_sections == collect_results(results, n - 1)
         IN  IF results[n].key # None
             THEN dict_set(modified_sections, results[n].key,
                           [title |-> results[n].title, content |-> results[n].content])
             ELSE modified_sections

\* edit_sections_node had it awaited gather(..., return_exceptions=True) and
\* dropped the failed results as it drops the sections not found
edit_sections_node_Swallow(r) ==
    LET run == runs[r]
        results == [i \in 1..Len(run.tasks) |->
                        IF run.tasks[i].pc = "failed" THEN NoTask ELSE run.tasks[i]]
        modified_sections == collect_results(results, Len(results))
    IN  /\ Running(r, "edit_sections:gather")
        /\ \A i \in 1..Len(run.tasks) : Ended(run.tasks[i])
        /\ runs' = [runs EXCEPT ![r].st.modified_sections = modified_sections,
                                ![r].pc = "assemble_document"]
        /\ UNCHANGED <<nreq, checkpointer, vector_store, stores, current_rag_params,
                       prepared, lifecycle>>

\* edit_sections_node after the await
edit_sections_node(r) ==
    LET run == runs[r]
        modified_sections == collect_results(run.tasks, Len(run.tasks))
    IN  /\ Running(r, "edit_sections:gather")
        /\ IF \E i \in 1..Len(run.tasks) : run.tasks[i].pc = "failed"
           THEN \* gather raises the first exception; the other sub-tasks keep running
                \E i \in 1..Len(run.tasks) :
                    run.tasks[i].pc = "failed" /\ Raise(r, run.tasks[i].error)
           ELSE /\ \A i \in 1..Len(run.tasks) : run.tasks[i].pc = "done"
                /\ runs' = [runs EXCEPT ![r].st.modified_sections = modified_sections,
                                        ![r].pc = "assemble_document"]
                /\ UNCHANGED checkpointer
        /\ UNCHANGED <<nreq, vector_store, stores, current_rag_params, prepared, lifecycle>>

\* content.split('\n\n')
RECURSIVE split_paragraphs(_)
split_paragraphs(content) ==
    LET breaks == { i \in 1..(Len(content) - 1) : content[i] = "\n" /\ content[i + 1] = "\n" }
    IN  IF breaks = {} THEN <<content>>
        ELSE LET i == CHOOSE i \in breaks : \A j \in breaks : i <= j
             IN  <<SubSeq(content, 1, i - 1)>>
                    \o split_paragraphs(SubSeq(content, i + 2, Len(content)))

\* the paragraphs doc.add_paragraph receives: stripped, the blank ones left out
paragraphs(content) ==
    LET stripped == [i \in 1..Len(split_paragraphs(content)) |->
                        strip(split_paragraphs(content)[i])]
    IN  SelectSeq(stripped, LAMBDA para : para # <<>>)

\* the modified sections written first, then the others
assemble_ModifiedFirst(example_sections, modified_sections) ==
    LET written == [i \in 1..Len(example_sections) |->
            IF dict_has(modified_sections, example_sections[i].key)
            THEN [title |-> dict_get(modified_sections, example_sections[i].key).title,
                  content |-> dict_get(modified_sections, example_sections[i].key).content,
                  paragraphs |-> paragraphs(dict_get(modified_sections,
                                                     example_sections[i].key).content),
                  modified |-> TRUE]
            ELSE [title |-> example_sections[i].value.title,
                  content |-> example_sections[i].value.content,
                  paragraphs |-> paragraphs(example_sections[i].value.content),
                  modified |-> FALSE]]
    IN  SelectSeq(written, LAMBDA section : section.modified)
            \o SelectSeq(written, LAMBDA section : ~section.modified)

\* the headings and bodies assemble_document_node writes, in order
assemble(example_sections, modified_sections) ==
    [i \in 1..Len(example_sections) |->
        IF dict_has(modified_sections, example_sections[i].key)
        THEN [title |-> dict_get(modified_sections, example_sections[i].key).title,
              content |-> dict_get(modified_sections, example_sections[i].key).content,
              paragraphs |-> paragraphs(dict_get(modified_sections,
                                                 example_sections[i].key).content),
              modified |-> TRUE]
        ELSE [title |-> example_sections[i].value.title,
              content |-> example_sections[i].value.content,
              paragraphs |-> paragraphs(example_sections[i].value.content),
              modified |-> FALSE]]

assemble_document_node(r) ==
    LET run == runs[r]
        document == assemble(run.st.example_sections, run.st.modified_sections)
        modified_count == Cardinality({i \in 1..Len(document) : document[i].modified})
        unchanged_count == Cardinality({i \in 1..Len(document) : ~document[i].modified})
        stats == [total_sections |-> Len(run.st.example_sections),
                  modified |-> modified_count,
                  unchanged |-> unchanged_count]
    IN  /\ Running(r, "assemble_document")
        /\ runs' = [runs EXCEPT ![r] =
                       [Returned([run EXCEPT !.pc = "__end__"], "done",
                                 [run.st EXCEPT !.stats = stats])
                           EXCEPT !.saved = document]]
        /\ UNCHANGED <<nreq, checkpointer, vector_store, stores, current_rag_params,
                       prepared, lifecycle>>

-----------------------------------------------------------------------------
(* core.store called on its own *)

\* a caller builds a retriever limited to the listed sources and searches with it
invoke_retriever(r, limit_to_sources) ==
    /\ NextSlot(r)
    /\ runs' = [runs EXCEPT ![r] =
                   [IdleRun EXCEPT !.kind = "as_retriever",
                                   !.args = [limit_to_sources |-> limit_to_sources],
                                   !.status = "done",
                                   !.result = search(as_retriever(limit_to_sources,
                                                                  vector_store))]]
    /\ UNCHANGED <<nreq, checkpointer, vector_store, stores, current_rag_params,
                   prepared, lifecycle>>

\* a dump with the values of top_k and overlap exchanged
model_dump_Exchanged(params) ==
    << [key |-> "similarity_threshold", value |-> params.similarity_threshold],
       [key |-> "top_k", value |-> params.overlap],
       [key |-> "chunk_size", value |-> params.chunk_size],
       [key |-> "overlap", value |-> params.top_k] >>

\* BaseModel.model_dump: the dict of the object's fields, in declaration order
model_dump(params) ==
    << [key |-> "similarity_threshold", value |-> params.similarity_threshold],
       [key |-> "top_k", value |-> params.top_k],
       [key |-> "chunk_size", value |-> params.chunk_size],
       [key |-> "overlap", value |-> params.overlap] >>

\* the caller serialises the object it constructed
dump(r) ==
    /\ runs[r].kind = "RagParameters" /\ runs[r].status = "done"
    /\ runs[r].saved = <<>>
    /\ runs' = [runs EXCEPT ![r].saved = model_dump(runs[r].result)]
    /\ UNCHANGED <<nreq, checkpointer, vector_store, stores, current_rag_params,
                   prepared, lifecycle>>

\* a caller constructs a RagParameters object
construct(r, similarity_threshold, top_k, chunk_size, overlap) ==
    LET made == RagParameters(similarity_threshold, top_k, chunk_size, overlap)
        call == [IdleRun EXCEPT !.kind = "RagParameters",
                                !.args = [similarity_threshold |-> similarity_threshold,
                                          top_k |-> top_k, chunk_size |-> chunk_size,
                                          overlap |-> overlap]]
    IN  /\ NextSlot(r)
        /\ runs[r].status = "idle"   \* one construction in a behaviour
        /\ runs' = [runs EXCEPT ![r] =
                       IF "error" \in DOMAIN made
                       THEN \* st keeps the fields the error names
                            [call EXCEPT !.status = "error", !.error = made.error,
                                         !.st = [fields |-> made.fields]]
                       ELSE [call EXCEPT !.status = "done", !.result = made]]
        /\ UNCHANGED <<nreq, checkpointer, vector_store, stores, current_rag_params,
                       prepared, lifecycle>>

-----------------------------------------------------------------------------
(* The text functions of targeted_editing_nodes.py called on their own *)

\* a caller normalizes a section name
normalize_name(r, name) ==
    /\ NextSlot(r)
    /\ runs[r].status = "idle"   \* one name in a behaviour
    /\ runs' = [runs EXCEPT ![r] =
                   [IdleRun EXCEPT !.kind = "normalize_section_name",
                                   !.args = [name |-> name],
                                   !.status = "done", !.pc = "normalized",
                                   !.result = normalize_section_name(name)]]
    /\ UNCHANGED <<nreq, checkpointer, vector_store, stores, current_rag_params,
                   prepared, lifecycle>>

\* the caller normalizes the key it got; saved keeps the second key
normalize_again(r) ==
    /\ runs[r].kind = "normalize_section_name" /\ runs[r].pc = "normalized"
    /\ runs' = [runs EXCEPT ![r].pc = "normalized again",
                            ![r].saved = normalize_section_name(runs[r].result)]
    /\ UNCHANGED <<nreq, checkpointer, vector_store, stores, current_rag_params,
                   prepared, lifecycle>>

\* a caller parses a document text
parse_document(r, text) ==
    /\ NextSlot(r)
    /\ runs[r].status = "idle"   \* one text in a behaviour
    /\ runs' = [runs EXCEPT ![r] =
                   [IdleRun EXCEPT !.kind = "parse_document_structure",
                                   !.args = [text |-> text],
                                   !.status = "done", !.pc = "parsed",
                                   !.result = parse_document_structure(text)]]
    /\ UNCHANGED <<nreq, checkpointer, vector_store, stores, current_rag_params,
                   prepared, lifecycle>>

-----------------------------------------------------------------------------
(* Specifications *)

Init ==
    /\ nreq = 0
    /\ runs = [r \in Slots |-> IdleRun]
    /\ checkpointer = [t \in ThreadIds |-> NoCheckpoint]
    /\ vector_store = 0
    /\ stores = [k \in {0} |-> {}]
    /\ current_rag_params = DefaultRagParameters
    /\ prepared = {}
    /\ lifecycle = [t \in ThreadIds |-> [owner |-> "none", interrupts |-> 0, edits |-> 0]]

\* the steps of calls already in flight, stage by stage
Extract == \E r \in Slots, answer \in ExtractorAnswers : extractor_node(r, answer)

StyleExtract == \E r \in Slots, answer \in StyleAnswers : style_extractor_node(r, answer)

Drafting ==
    \E r \in Slots :
        \/ draft_sections(r)
        \/ \E i \in 1..Len(runs[r].tasks), answer \in QueryAnswers : query_node(r, i, answer)
        \/ \E i \in 1..Len(runs[r].tasks), ok \in BOOLEAN : section_drafting_node(r, i, ok)
        \/ drafting_node(r)

Retrieve == \E r \in Slots : \E i \in 1..Len(runs[r].tasks) : retrieve(r, i)

HumanRevision == \E r \in Slots : human_revision_node(r)

Editor == \E r \in Slots, ok \in BOOLEAN : editor_node(r, ok)

TargetedEditing ==
    \E r \in Slots :
        \/ parse_example_node(r)
        \/ edit_tasks(r)
        \/ \E i \in 1..Len(runs[r].tasks), answer \in QueryAnswers :
                query_node_for_section_editing(r, i, answer)
        \/ \E i \in 1..Len(runs[r].tasks), answer \in RewriteAnswers :
                edit_section_with_llm_node(r, i, answer)
        \/ edit_sections_node(r)
        \/ assemble_document_node(r)

\* a caller starts a top-level request with arguments the environment offers
Generate(overlap, env) ==
    /\ nreq < env.requests
    /\ \E r \in Slots, session \in env.sessions, sections \in env.sections,
          source_texts \in env.source_texts, example \in env.examples,
          rag_params \in env.rag_params :
            generate(r, overlap, session, sections, source_texts, example, rag_params)

Edit(overlap, env) ==
    \E r \in Slots, session \in env.sessions, question \in env.questions,
       content \in env.contents :
        edit(r, overlap, session, question, content)

TargetedEdit(overlap, env) ==
    /\ nreq < env.requests
    /\ \E r \in Slots, document \in env.documents, reference_texts \in env.source_texts,
          section_changes \in env.section_changes, rag_params \in env.rag_params :
            targeted_edit(r, overlap, document, reference_texts, section_changes, rag_params)

\* Sessions and revision: two sessions, every kind of exemplar and question
EnvRevision ==
    [requests |-> MaxReq,
     sessions |-> Sessions,
     sections |-> {SingleSection},
     source_texts |-> {<<"a">>},
     examples |-> ExampleInputs,
     rag_params |-> {NoRagParameters},
     questions |-> QuestionInputs,
     contents |-> ContentInputs]

\* requests do not overlap: one starts when the calls before it have returned
Next ==
    \/ Generate("sequential", EnvRevision) \/ Edit("sequential", EnvRevision)
    \/ Extract \/ StyleExtract \/ Drafting \/ Retrieve \/ HumanRevision \/ Editor

Spec == Init /\ [][Next]_vars

\* The draft fan-out: section trees of one, two and three drafted nodes
EnvDraft ==
    [requests |-> MaxReq,
     sessions |-> {"s1"},
     sections |-> SectionInputs \cup {DeepSections},
     source_texts |-> {<<"a", "b">>},
     examples |-> {None},
     rag_params |-> {NoRagParameters}]

NextDraft ==
    \/ Generate("idle", EnvDraft)
    \/ Extract \/ Drafting \/ Retrieve \/ HumanRevision

SpecDraft == Init /\ [][NextDraft]_vars

\* The corpus: both kinds of request that load it, every source set
EnvStore ==
    [requests |-> MaxCorpusReq,
     sessions |-> {"s1"},
     sections |-> {NestedSections},
     source_texts |-> SourceInputs,
     examples |-> {None},
     rag_params |-> {NoRagParameters},
     documents |-> ExampleDocuments,
     section_changes |-> SectionChangeInputs]

NextStore ==
    \/ Generate("sequential", EnvStore) \/ TargetedEdit("sequential", EnvStore)
    \/ Extract \/ Drafting \/ Retrieve \/ HumanRevision \/ TargetedEditing

SpecStore == Init /\ [][NextStore]_vars

\* The retrieval parameters: requests with and without rag_params, one after
\* the other
EnvRag ==
    [requests |-> MaxCorpusReq,
     sessions |-> {"s1"},
     sections |-> {SingleSection},
     source_texts |-> {<<"a">>},
     examples |-> {None},
     rag_params |-> RagInputs,
     documents |-> ExampleDocuments,
     section_changes |-> {OneMatchingChange}]

NextRag ==
    \/ Generate("sequential", EnvRag) \/ TargetedEdit("sequential", EnvRag)
    \/ Extract \/ Drafting \/ Retrieve \/ HumanRevision \/ TargetedEditing

SpecRag == Init /\ [][NextRag]_vars

\* requests may overlap
EnvConc ==
    [requests |-> MaxCorpusReq,
     sessions |-> {"s1"},
     sections |-> {SingleSection},
     source_texts |-> {<<"a", "b">>},
     examples |-> {None},
     rag_params |-> {NoRagParameters},
     documents |-> ExampleDocuments,
     section_changes |-> {OneMatchingChange}]

NextConc ==
    \/ Generate("overlap", EnvConc) \/ TargetedEdit("overlap", EnvConc)
    \/ Extract \/ Drafting \/ Retrieve \/ HumanRevision \/ TargetedEditing

SpecConc == Init /\ [][NextConc]_vars

\* Targeted editing alone: a three-section exemplar and every kind of change list
EnvEdit ==
    [requests |-> MaxCorpusReq,
     source_texts |-> {<<"a", "b">>},
     rag_params |-> {NoRagParameters},
     documents |-> {ThreeSectionDocument},
     section_changes |-> ThreeSectionChanges]

NextEdit == TargetedEdit("idle", EnvEdit) \/ Retrieve \/ TargetedEditing

SpecEdit == Init /\ [][NextEdit]_vars

\* Scoped search on its own: a corpus of chunks of some of four sources, and
\* lists of no, one, two and three source ids
ScopeInputs ==
    { <<>>, <<"">>, <<"a">>, <<"b">>, <<"e">>, <<"a", "b">>, <<"a", "e">>, <<"a", "a">>,
      <<"c", "a", "b">> }

InitScope ==
    /\ nreq = 0
    /\ runs = [r \in Slots |-> IdleRun]
    /\ checkpointer = [t \in ThreadIds |-> NoCheckpoint]
    /\ vector_store = 0
    /\ \E corpus \in SUBSET add_sources(<<"a", "b", "c", "d">>, DefaultRagParameters, 0) :
            stores = [k \in {0} |-> corpus]
    /\ current_rag_params = DefaultRagParameters
    /\ prepared = {}
    /\ lifecycle = [t \in ThreadIds |-> [owner |-> "none", interrupts |-> 0, edits |-> 0]]

NextScope ==
    \E r \in Slots, limit_to_sources \in ScopeInputs : invoke_retriever(r, limit_to_sources)

SpecScope == InitScope /\ [][NextScope]_vars

\* RagParameters on its own: values below, at, inside, at and above each range
ParameterInputs ==
    [similarity_threshold |-> {-1, 0, 60, 70, 100, 101},
     top_k |-> {0, 1, 8, 50, 51},
     chunk_size |-> {99, 100, 255, 256, 257, 383, 384, 385, 512, 767, 768, 769, 1024,
                     1025, 2000, 2001},
     overlap |-> {-1, 0, 20, 50, 51}]

NextParameters ==
    \/ \E r \in Slots : dump(r)
    \/ \E r \in Slots,
       similarity_threshold \in ParameterInputs.similarity_threshold,
       top_k \in ParameterInputs.top_k,
       chunk_size \in ParameterInputs.chunk_size,
       overlap \in ParameterInputs.overlap :
            construct(r, similarity_threshold, top_k, chunk_size, overlap)

SpecParameters == Init /\ [][NextParameters]_vars

\* The text functions on their own: every name of up to MaxTitleLen characters
\* over a digit, a dot, a blank, letters of both cases and punctuation
TitleInputs ==
    UNION { [1..n -> {"1", ".", " ", "a", "A", "-", "_", "!"}] : n \in 0..MaxTitleLen }

\* documents of up to MaxDocLines lines: headings (two of them with one key),
\* body lines and blank lines
DocumentInputs ==
    LET DocumentLines == { <<"A", "B", "C", "D">>, <<"A", "B", "C", "D", ":">>,
                           <<"E", "F", "G", "H">>, <<"x">>, <<" ", "y">>, <<>> }
    IN  { join(lines, "\n") :
            lines \in UNION { [1..n -> DocumentLines] : n \in 0..MaxDocLines } }

NextText ==
    \/ \E r \in Slots, name \in TitleInputs : normalize_name(r, name)
    \/ \E r \in Slots, text \in DocumentInputs : parse_document(r, text)
    \/ \E r \in Slots : normalize_again(r)

SpecText == Init /\ [][NextText]_vars

-----------------------------------------------------------------------------
(* Properties *)

HasReturned(r) == runs[r].status \in {"interrupted", "done"}

Blank(text) == ~(bool(text) /\ bool(strip(text)))

Checkpoint(r) == checkpointer[get_agent_config(runs[r].session)]

\* an edit call that found its thread suspended at human_revision_node
Resumed(r) == runs[r].kind = "edit" /\ runs[r].loaded.next = "human_revision_node"

(* C1: once both sessions have called generate, an edit call that finds the
   workflow suspended at human_revision_node continues a checkpoint that the
   calling session's own generate call wrote. *)
C1_ResumeOwnCheckpoint ==
    \A r \in Slots :
        (prepared = Sessions /\ Resumed(r)) => runs[r].loaded.owner = runs[r].session

(* C2 as stated: when generate returns, the workflow is at its terminal state and
   revision_question and revision are still empty. *)
C2_PrepareReachesTerminal ==
    \A r \in Slots :
        (runs[r].kind = "generate" /\ HasReturned(r))
            => /\ runs[r].pc = "__end__"
               /\ Checkpoint(r).values.revision_question = <<>>
               /\ Checkpoint(r).values.revision = <<>>

(* C2 amended: when generate returns, the workflow is suspended at
   human_revision_node, not ended; the thread's checkpoint names that node,
   revision_question and revision are still empty, and the value returned is the
   checkpointed section tree. *)
C2_PrepareSuspends ==
    \A r \in Slots :
        (runs[r].kind = "generate" /\ HasReturned(r))
            => /\ runs[r].status = "interrupted"
               /\ runs[r].pc = "human_revision_node"
               /\ Checkpoint(r).next = "human_revision_node"
               /\ Checkpoint(r).values.revision_question = <<>>
               /\ Checkpoint(r).values.revision = <<>>
               /\ runs[r].result = Checkpoint(r).values.sections

C2_Witness ==
    \E r \in Slots : runs[r].kind = "generate" /\ runs[r].status = "interrupted"

(* C3: an edit call that finds the thread suspended at human_revision_node and
   carries a non-blank question returns with the workflow suspended at
   human_revision_node again; the checkpointed revision is the editor's answer to
   the content passed in, and that text is the value returned. *)
C3_ResumeEditsAndSuspends ==
    \A r \in Slots :
        (Resumed(r) /\ HasReturned(r) /\ ~Blank(runs[r].args.question))
            => /\ runs[r].status = "interrupted"
               /\ runs[r].pc = "human_revision_node"
               /\ Checkpoint(r).next = "human_revision_node"
               /\ Checkpoint(r).values.revision = <<"edited">> \o runs[r].args.content
               /\ runs[r].result = Checkpoint(r).values.revision

\* a second resume of the same lifecycle has returned: the thread it found
\* already held the revision text of an earlier resume
C3_Witness ==
    \E r \in Slots :
        /\ Resumed(r) /\ runs[r].status = "interrupted"
        /\ ~Blank(runs[r].args.question)
        /\ runs[r].loaded.revision = <<"edited">> \o runs[r].args.content

(* C4: on resume from human_revision_node the editor runs only for a non-blank
   question; with a missing, empty or whitespace-only question the call returns
   with the workflow ended. *)
C4_BlankQuestionEnds ==
    \A r \in Slots :
        Resumed(r)
            => /\ Running(r, "editor_node") => ~Blank(runs[r].args.question)
               /\ (Blank(runs[r].args.question) /\ HasReturned(r))
                    => (runs[r].status = "done" /\ runs[r].pc = "__end__")

(* C5 as stated: within one lifecycle the workflow suspends exactly once. *)
C5_SuspendsOnce ==
    \A t \in ThreadIds : lifecycle[t].interrupts <= 1

(* C5 amended: every suspension is at human_revision_node, and the workflow
   suspends once per pass through it: once when generate reaches it and once
   more after each editor pass, so a lifecycle with k editor passes that is
   suspended or ended has suspended k + 1 times. *)
C5_SuspendsEachPass ==
    /\ \A r \in Slots :
           runs[r].status = "interrupted" => runs[r].pc = "human_revision_node"
    /\ \A t \in ThreadIds :
           /\ lifecycle[t].interrupts <= lifecycle[t].edits + 1
           /\ (Quiescent /\ checkpointer[t].next \in {"human_revision_node", "__end__"})
                => lifecycle[t].interrupts = lifecycle[t].edits + 1

C5_Witness ==
    \E t \in ThreadIds :
        /\ Quiescent
        /\ checkpointer[t].next = "human_revision_node"
        /\ lifecycle[t].interrupts = 3

StageOrder ==
    { <<"extractor_node", "style_extractor_node">>,
      <<"extractor_node", "drafting_node">>,
      <<"style_extractor_node", "drafting_node">>,
      <<"drafting_node", "drafting_node:gather">>,
      <<"drafting_node:gather", "human_revision_node">>,
      <<"human_revision_node", "editor_node">>,
      <<"human_revision_node", "__end__">>,
      <<"editor_node", "human_revision_node">> }

(* C6: a generate call enters the graph at extractor_node; every call moves only
   along extract -> (style_extract) -> draft -> human_revision ->
   (end | editor -> human_revision); and a call at the draft stage holds the
   extractions of every source. *)
C6_StageOrder ==
    /\ [][\A r \in Slots :
            /\ (runs'[r].id # runs[r].id /\ runs'[r].kind = "generate"
                    /\ runs'[r].status = "running")
                 => runs'[r].pc = "extractor_node"
            /\ (runs'[r].id = runs[r].id /\ runs'[r].pc # runs[r].pc)
                 => <<runs[r].pc, runs'[r].pc>> \in StageOrder]_vars
    /\ [](\A r \in Slots :
            (runs[r].status = "running"
                /\ runs[r].pc \in {"drafting_node", "drafting_node:gather"})
              => Len(runs[r].st.source_extractions) = Len(runs[r].st.source_texts))

C6_Witness ==
    \E r \in Slots : Resumed(r) /\ runs[r].status = "interrupted"

(* C7: style_extractor_node runs only for an exemplar with a non-whitespace
   character, and once the workflow is past style extraction the style profile
   is set exactly when the exemplar has one. *)
C7_StyleIffExemplar ==
    /\ \A r \in Slots :
           Running(r, "style_extractor_node")
              => ~Blank(runs[r].st.example_document_text)
    /\ \A t \in ThreadIds :
           (checkpointer[t] # NoCheckpoint
                /\ checkpointer[t].next \notin {"extractor_node", "style_extractor_node"})
              => (checkpointer[t].values.style_guidelines # None
                    <=> ~Blank(checkpointer[t].values.example_document_text))

C7_Witness ==
    \E t \in ThreadIds :
        /\ checkpointer[t] # NoCheckpoint
        /\ checkpointer[t].next = "human_revision_node"
        /\ checkpointer[t].values.style_guidelines # None

\* the chunks the searches of a request in flight have returned
SeenBy(r) == UNION { runs[r].tasks[i].seen : i \in 1..Len(runs[r].tasks) }

LoadsCorpus(r) == runs[r].kind \in {"generate", "targeted_edit"}

(* C8: when top-level requests do not overlap, every store object holds only
   chunks loaded by the request that created it, while a request is in flight
   the process-wide store is the one it created, and every search made for the
   request returns only chunks that request loaded. *)
C8_CorpusHoldsOwnChunks ==
    /\ \A k \in DOMAIN stores : \A c \in stores[k] : c.req = k
    /\ \A r \in Slots :
           (runs[r].status = "running" /\ LoadsCorpus(r))
              => /\ vector_store = runs[r].id
                 /\ \A c \in SeenBy(r) : c.req = runs[r].id

\* a targeted-edit request searches after a generate call has loaded its sources,
\* drafted and suspended
C8_Witness ==
    \E r \in Slots :
        /\ runs[r].status = "running" /\ runs[r].kind = "targeted_edit"
        /\ SeenBy(r) # {}
        /\ \E t \in ThreadIds : checkpointer[t].next = "human_revision_node"

(* C9: with overlapping requests a search made for a request in flight can
   return chunks that another request loaded; such chunks are always those of a
   request started after this one, while this one was still in flight. *)
C9_ForeignChunksFromOverlap ==
    \A r \in Slots :
        (runs[r].status = "running" /\ LoadsCorpus(r))
            => \A c \in SeenBy(r) : c.req >= runs[r].id

\* a search made for a request in flight has returned another request's chunk
C9_Witness ==
    \E r \in Slots :
        /\ runs[r].status = "running" /\ LoadsCorpus(r)
        /\ \E c \in SeenBy(r) : c.req # runs[r].id

(* C10: when the draft stage has written its results, the i-th node of the
   pre-order walk holds the content the i-th launched sub-task produced,
   whatever the order in which the sub-tasks completed. *)
C10_DraftByPosition ==
    \A r \in Slots :
        (Running(r, "human_revision_node") /\ runs[r].tasks # <<>>)
            => LET walk == walk_sections(runs[r].st.sections)
               IN  /\ Len(walk) = Len(runs[r].tasks)
                   /\ \A i \in 1..Len(walk) : walk[i].content = runs[r].tasks[i].content

\* three drafted nodes whose sub-tasks completed in the reverse of launch order
C10_Witness ==
    \E r \in Slots :
        /\ Running(r, "human_revision_node")
        /\ runs[r].finished = <<3, 2, 1>>

-----------------------------------------------------------------------------
(* Fan-out stages and their failures *)

\* the fan-out stage of the call in slot r awaits its sub-tasks
Gathering(r) ==
    runs[r].status = "running" /\ runs[r].pc \in {"drafting_node:gather", "edit_sections:gather"}

\* the call in slot r launched sub-tasks and its fan-out stage has gone on, to
\* its successor or to a failure
FanOutLeft(r) == runs[r].tasks # <<>> /\ ~Gathering(r)

\* C11: a fan-out stage (draft or edit_sections) goes on, to its successor or to
\* a failure, only when every sub-task it launched has completed.
C11_FanOutWaitsForAll ==
    \A r \in Slots :
        FanOutLeft(r) => \A i \in 1..Len(runs[r].tasks) : Ended(runs[r].tasks[i])

\* the parsed sections a requested name qualifies for: the normalized name is
\* part of the key or the key is part of it
Qualifying(example_sections, section_name) ==
    { i \in 1..Len(example_sections) :
        \/ contains(example_sections[i].key, normalize_section_name(section_name))
        \/ contains(normalize_section_name(section_name), example_sections[i].key) }

\* the first of a set of positions
First(Q) == CHOOSE i \in Q : \A j \in Q : i <= j

FailedTasks(r) == { i \in 1..Len(runs[r].tasks) : runs[r].tasks[i].pc = "failed" }

TargetedDone(r) == runs[r].kind = "targeted_edit" /\ runs[r].status = "done"

(* C12: a targeted-edit call with a failed rewrite sub-task is still in its
   edit_sections stage or has raised out of it with the exception of a failed
   sub-task: it never reaches assemble.  So in every run that returns stats,
   each requested change that names a parsed section has an entry in
   modified_sections: no failed rewrite is counted as unchanged or dropped like
   a section not found. *)
C12_RewriteFailureFailsStage ==
    \A r \in Slots :
        /\ (runs[r].kind = "targeted_edit" /\ FailedTasks(r) # {})
                => /\ runs[r].pc = "edit_sections:gather"
                   /\ runs[r].status \in {"running", "error"}
                   /\ runs[r].status = "error"
                        => \E i \in FailedTasks(r) : runs[r].error = runs[r].tasks[i].error
        /\ TargetedDone(r)
                => \A c \in 1..Len(runs[r].result.section_changes) :
                     LET Q == Qualifying(runs[r].result.example_sections,
                                         runs[r].result.section_changes[c].section_name)
                     IN  Q # {} => dict_has(runs[r].result.modified_sections,
                                            runs[r].result.example_sections[First(Q)].key)

\* a call whose rewrite of one section failed beside a request that named no
\* parsed section: the call has raised
C12_Witness ==
    \E r \in Slots :
        /\ runs[r].kind = "targeted_edit" /\ runs[r].status = "error"
        /\ runs[r].pc = "edit_sections:gather"
        /\ \E i, j \in 1..Len(runs[r].tasks) :
                /\ runs[r].tasks[i].pc = "failed" /\ runs[r].tasks[i].key # None
                /\ runs[r].tasks[j].pc = "done" /\ runs[r].tasks[j].key = None

(* C13: the extract stage does not fail on extraction output that cannot be
   parsed: no generate call raises out of extractor_node with the parser's
   error. *)
C13_MalformedExtractionTolerated ==
    \A r \in Slots :
        ~(/\ runs[r].kind = "generate" /\ runs[r].status = "error"
          /\ runs[r].pc = "extractor_node" /\ runs[r].error = "JSONDecodeError")

(* C14: rewrite output that cannot be parsed never fails a rewrite sub-task and
   never makes a targeted-edit call raise. *)
C14_RewriteParseFallsBack ==
    \A r \in Slots :
        runs[r].kind = "targeted_edit"
            => /\ runs[r].error # "JSONDecodeError"
               /\ \A i \in 1..Len(runs[r].tasks) :
                      runs[r].tasks[i].error # "JSONDecodeError"

-----------------------------------------------------------------------------
(* Matching, assembly and stats of a targeted edit *)

\* the keys the requested changes edit: for each change that qualifies for some
\* parsed section, the key of the first such section
EditedKeys(example_sections, section_changes) ==
    { example_sections[First(Qualifying(example_sections, section_changes[c].section_name))].key :
        c \in { c \in 1..Len(section_changes) :
                  Qualifying(example_sections, section_changes[c].section_name) # {} } }

Keys(dict) == { dict[i].key : i \in 1..Len(dict) }

(* C15: the sub-task of each requested change works on the first parsed section,
   in document order, that the requested name qualifies for; a change that
   qualifies for none ends at once without a section and without an error, and
   the keys of modified_sections are exactly the keys so chosen. *)
C15_FirstQualifyingSection ==
    \A r \in Slots :
        /\ Running(r, "edit_sections:gather")
            => /\ Len(runs[r].tasks) = Len(runs[r].st.section_changes)
               /\ \A c \in 1..Len(runs[r].tasks) :
                    LET Q == Qualifying(runs[r].st.example_sections,
                                        runs[r].st.section_changes[c].section_name)
                        task == runs[r].tasks[c]
                    IN  IF Q = {}
                        THEN task.key = None /\ task.pc = "done" /\ task.error = ""
                        ELSE /\ task.key = runs[r].st.example_sections[First(Q)].key
                             /\ task.original = runs[r].st.example_sections[First(Q)].value.content
        /\ TargetedDone(r)
            => Keys(runs[r].result.modified_sections)
                    = EditedKeys(runs[r].result.example_sections, runs[r].result.section_changes)

\* a call returned after a change that qualified for two parsed sections and
\* a change that qualified for none: only the first of the two was edited
C15_Witness ==
    \E r \in Slots :
        /\ TargetedDone(r)
        /\ \E c, d \in 1..Len(runs[r].result.section_changes) :
              LET Q == Qualifying(runs[r].result.example_sections,
                                  runs[r].result.section_changes[c].section_name)
              IN  /\ Cardinality(Q) > 1
                  /\ Keys(runs[r].result.modified_sections)
                        = {runs[r].result.example_sections[First(Q)].key}
                  /\ Qualifying(runs[r].result.example_sections,
                                runs[r].result.section_changes[d].section_name) = {}

(* C16: the document a targeted-edit call wrote holds one section per parsed
   section, in parsed order; a section whose key is in modified_sections holds
   the rewritten title and content, and every other section holds the title and
   content parsed from the exemplar, whatever was rewritten elsewhere. *)
C16_UnmodifiedSectionsKept ==
    \A r \in Slots :
        TargetedDone(r)
            => LET parsed == parse_document_structure(runs[r].result.example_document_text)
                   modified_sections == runs[r].result.modified_sections
                   document == runs[r].saved
               IN  /\ Len(document) = Len(parsed)
                   /\ \A i \in 1..Len(parsed) :
                        IF parsed[i].key \in Keys(modified_sections)
                        THEN /\ document[i].title = dict_get(modified_sections, parsed[i].key).title
                             /\ document[i].content
                                    = dict_get(modified_sections, parsed[i].key).content
                        ELSE /\ document[i].title = denormalize_section_name(parsed[i].key)
                             /\ document[i].content = parsed[i].value
                             /\ document[i].paragraphs = paragraphs(parsed[i].value)

\* a written document whose second section was rewritten, between a first
\* section of two paragraphs and a third that were not
C16_Witness ==
    \E r \in Slots :
        /\ TargetedDone(r)
        /\ Len(runs[r].saved) = 3
        /\ ~runs[r].saved[1].modified /\ Len(runs[r].saved[1].paragraphs) = 2
        /\ runs[r].saved[2].modified
        /\ runs[r].saved[2].content # runs[r].result.example_sections[2].value.content
        /\ ~runs[r].saved[3].modified

(* C17: in the state a targeted-edit call returns, stats.total_sections is the
   number of sections parsed from the exemplar, modified and unchanged add up to
   it, and modified is the number of entries of modified_sections. *)
C17_StatsCountSections ==
    \A r \in Slots :
        TargetedDone(r)
            => LET stats == runs[r].result.stats
               IN  /\ stats.total_sections
                        = Len(parse_document_structure(runs[r].result.example_document_text))
                   /\ stats.modified + stats.unchanged = stats.total_sections
                   /\ stats.modified = Len(runs[r].result.modified_sections)

\* three parsed sections and one request, which matched: 3, 1 and 2
C17_Witness ==
    \E r \in Slots :
        /\ TargetedDone(r)
        /\ Len(runs[r].result.section_changes) = 1
        /\ runs[r].result.stats = [total_sections |-> 3, modified |-> 1, unchanged |-> 2]

-----------------------------------------------------------------------------
(* Retrieval scope and parameters *)

Searched(r) == runs[r].kind = "as_retriever" /\ runs[r].status = "done"

(* C18: a search through as_retriever(ids) returns, of the corpus, everything
   when the list holds no id (the empty list, or the one empty id of a section
   without a source), only the chunks of that source when it holds one id, and
   only the chunks of the listed sources when it holds two or more; no chunk of
   another source is returned. *)
C18_ScopeRestrictsSearch ==
    \A r \in Slots :
        Searched(r)
            => LET ids == runs[r].args.limit_to_sources
                   corpus == stores[vector_store]
                   found == runs[r].result
                   listed == { ids[i] : i \in 1..Len(ids) }
               IN  /\ found \subseteq corpus
                   /\ (ids = <<>> \/ ids = <<"">>) => found = corpus
                   /\ (Len(ids) = 1 /\ ids # <<"">>)
                        => found = { c \in corpus : c.source = ids[1] }
                   /\ Len(ids) >= 2 => found = { c \in corpus : c.source \in listed }

\* a search limited to two sources, over a corpus that holds chunks of both and
\* of a third: it returned the former and not the latter
C18_Witness ==
    \E r \in Slots :
        /\ Searched(r)
        /\ Len(runs[r].args.limit_to_sources) = 2
        /\ Cardinality(runs[r].result) = 2
        /\ stores[vector_store] \ runs[r].result # {}

(* C19: while a generate or targeted_edit call that was given no rag_params
   runs, the corpus it loaded is chunked with the default chunk size and
   overlap, and the retrievers of its sub-tasks search with the default top_k
   and threshold. *)
C19_NoParamsUsesDefaults ==
    \A r \in Slots :
        (/\ LoadsCorpus(r) /\ runs[r].status = "running"
         /\ runs[r].args.rag_params = NoRagParameters)
            => /\ runs[r].id \in DOMAIN stores
                    => \A c \in stores[runs[r].id] :
                          /\ c.chunk_size = DefaultRagParameters.chunk_size
                          /\ c.chunk_overlap = chunk_overlap_tokens(DefaultRagParameters)
               /\ \A i \in 1..Len(runs[r].tasks) :
                    runs[r].tasks[i].retriever # NoRetriever
                        => /\ runs[r].tasks[i].retriever.k = DefaultRagParameters.top_k
                           /\ runs[r].tasks[i].retriever.score_threshold
                                = DefaultRagParameters.similarity_threshold

Constructed(r) == runs[r].kind = "RagParameters"

(* C20: constructing RagParameters with a similarity_threshold outside 0..1, a
   top_k outside 1..50, a chunk_size outside 100..2000 or an overlap outside
   0..50 fails with a validation error that names the field and yields no
   object; with every field in range it yields an object. *)
C20_OutOfRangeRejected ==
    \A r \in Slots :
        Constructed(r)
            => LET args == runs[r].args
                   out == (IF args.similarity_threshold < 0 \/ args.similarity_threshold > 100
                           THEN {"similarity_threshold"} ELSE {})
                          \cup (IF args.top_k < 1 \/ args.top_k > 50
                                THEN {"top_k"} ELSE {})
                          \cup (IF args.chunk_size < 100 \/ args.chunk_size > 2000
                                THEN {"chunk_size"} ELSE {})
                          \cup (IF args.overlap < 0 \/ args.overlap > 50
                                THEN {"overlap"} ELSE {})
               IN  IF out # {}
                   THEN /\ runs[r].status = "error"
                        /\ runs[r].error = "ValidationError"
                        /\ runs[r].st.fields = out
                        /\ runs[r].result = None
                   ELSE runs[r].status = "done"

\* a construction that failed on a chunk_size below the range alone, which the
\* validator would have snapped to an allowed value
C20_Witness ==
    \E r \in Slots :
        /\ Constructed(r) /\ runs[r].status = "error"
        /\ runs[r].args.chunk_size = 99
        /\ runs[r].st.fields = {"chunk_size"}

(* C21: a RagParameters object constructed with a chunk_size of 100..2000 holds
   a chunk_size of 256, 512 or 1024: the given one when it is one of them,
   otherwise the one nearest to it, and of two equally near the smaller. *)
C21_ChunkSizeSnapped ==
    \A r \in Slots :
        (Constructed(r) /\ runs[r].status = "done")
            => LET given == runs[r].args.chunk_size
                   stored == runs[r].result.chunk_size
                   dist(x) == IF x < given THEN given - x ELSE x - given
               IN  /\ stored \in {256, 512, 1024}
                   /\ given \in {256, 512, 1024} => stored = given
                   /\ \A x \in {256, 512, 1024} :
                        \/ dist(stored) < dist(x)
                        \/ dist(stored) = dist(x) /\ stored <= x

\* a chunk_size as near to 512 as to 1024 was stored as 512
C21_Witness ==
    \E r \in Slots :
        /\ Constructed(r) /\ runs[r].status = "done"
        /\ runs[r].args.chunk_size = 768
        /\ runs[r].result.chunk_size = 512

Dumped(r) == Constructed(r) /\ runs[r].saved # <<>>

(* C22 as stated: model_dump returns the field values the object was
   constructed with. *)
C22_DumpReturnsGiven ==
    \A r \in Slots :
        Dumped(r)
            => \A f \in {"similarity_threshold", "top_k", "chunk_size", "overlap"} :
                    dict_get(runs[r].saved, f) = runs[r].args[f]

(* C22, amended: model_dump returns the values the object holds: the
   similarity_threshold, top_k and overlap it was constructed with, and as
   chunk_size a member of {256, 512, 1024}, which is the one given exactly when
   the one given is a member; constructed with 0.7, 8, 768 and 20 it dumps a
   chunk_size of 512. *)
C22_DumpReturnsStored ==
    \A r \in Slots :
        Dumped(r)
            => /\ Len(runs[r].saved) = 4
               /\ \A f \in {"similarity_threshold", "top_k", "overlap"} :
                    dict_get(runs[r].saved, f) = runs[r].args[f]
               /\ dict_get(runs[r].saved, "chunk_size") \in {256, 512, 1024}
               /\ dict_get(runs[r].saved, "chunk_size") = runs[r].args.chunk_size
                    <=> runs[r].args.chunk_size \in {256, 512, 1024}
               /\ runs[r].args.chunk_size = 768
                    => dict_get(runs[r].saved, "chunk_size") = 512

\* the dump of the object constructed with 0.7, 8, 768 and 20
C22_Witness ==
    \E r \in Slots :
        /\ Dumped(r)
        /\ runs[r].args = [similarity_threshold |-> 70, top_k |-> 8, chunk_size |-> 768,
                            overlap |-> 20]
        /\ dict_get(runs[r].saved, "chunk_size") = 512

(* C23: every chunk of the corpus the current parameters loaded carries their
   chunk_size and, as absolute overlap, the integer part of
   chunk_size * overlap / 100: 76 for (512, 15) and 256 for (1024, 25); the
   overlap is never more than half the chunk size. *)
C23_OverlapIsFloor ==
    \A c \in stores[vector_store] :
        LET chunk_size == current_rag_params.chunk_size
            overlap == current_rag_params.overlap
        IN  /\ c.chunk_size = chunk_size
            /\ 100 * c.chunk_overlap <= chunk_size * overlap
            /\ chunk_size * overlap < 100 * (c.chunk_overlap + 1)
            /\ 2 * c.chunk_overlap <= chunk_size
            /\ (chunk_size = 512 /\ overlap = 15) => c.chunk_overlap = 76
            /\ (chunk_size = 1024 /\ overlap = 25) => c.chunk_overlap = 256

\* a corpus loaded by a request that supplied (1024, 25)
C23_Witness ==
    /\ current_rag_params.chunk_size = 1024 /\ current_rag_params.overlap = 25
    /\ \E c \in stores[vector_store] : c.chunk_size = 1024 /\ c.chunk_overlap = 256

-----------------------------------------------------------------------------
(* Normalizer, walk and parser *)

(* C24: normalizing a normalized section name gives it back. *)
C24_NormalizeIdempotent ==
    \A r \in Slots :
        (runs[r].kind = "normalize_section_name" /\ runs[r].pc = "normalized again")
            => runs[r].saved = runs[r].result

\* the parser calls that returned
Parsed == {r \in Slots : runs[r].kind = "parse_document_structure" /\ runs[r].pc = "parsed"}

\* the indices of the heading lines of a text
Headings(text) ==
    LET lines == split(text, "\n") IN {i \in 1..Len(lines) : is_heading(lines[i])}

\* the lines after heading line i up to the next heading line, joined
Body(text, i) ==
    LET lines == split(text, "\n")
        later == {j \in Headings(text) : j > i}
        last == IF later = {} THEN Len(lines)
                ELSE (CHOOSE j \in later : \A k \in later : j <= k) - 1
    IN  join(SubSeq(lines, i + 1, last), "\n")

\* the key of heading line i
HeadingKey(text, i) ==
    normalize_section_name(rstrip_chars(strip(split(text, "\n")[i]), {":", "."}))

MainContent == <<"m", "a", "i", "n", "_", "c", "o", "n", "t", "e", "n", "t">>

(* C26, as stated: a text without a heading line comes back as one section
   "main_content" whose content is the whole text. *)
C26_MainContentHoldsText ==
    \A r \in Parsed :
        Headings(runs[r].args.text) = {}
            => runs[r].result = <<[key |-> MainContent, value |-> runs[r].args.text]>>

(* C26: the parser returns for every text; every section it returns holds the
   lines between one heading line of its key and the next heading line, joined
   and with surrounding whitespace removed, so no line before the first heading
   is in any section; every heading's key is a key of the result; a text without
   a heading line comes back as one section "main_content" holding the text with
   surrounding whitespace removed. *)
C26_LinesFiledUnderHeading ==
    \A r \in Parsed :
        LET text == runs[r].args.text
            sections == runs[r].result
        IN  /\ runs[r].status = "done" /\ runs[r].error = ""
            /\ Headings(text) = {}
                  => sections = <<[key |-> MainContent, value |-> strip(text)]>>
            /\ Headings(text) # {}
                  => /\ \A i \in Headings(text) : dict_has(sections, HeadingKey(text, i))
                     /\ \A n \in 1..Len(sections) :
                           \E i \in Headings(text) :
                               /\ sections[n].key = HeadingKey(text, i)
                               /\ sections[n].value = strip(Body(text, i))

\* "x", "ABCD", " y": the line before the heading is gone, the line after it is kept
C26_Witness ==
    \E r \in Parsed :
        /\ runs[r].args.text = <<"x", "\n", "A", "B", "C", "D", "\n", " ", "y">>
        /\ runs[r].result = <<[key |-> <<"a", "b", "c", "d">>, value |-> <<"y">>]>>

(* C30: the parser returns one section for every heading line, and the lines
   filed under every heading are in the mapping it returns. *)
C30_OneSectionPerHeading ==
    \A r \in Parsed :
        LET text == runs[r].args.text
            sections == runs[r].result
        IN  Headings(text) # {}
              => /\ Len(sections) = Cardinality(Headings(text))
                 /\ \A i \in Headings(text) :
                       \E n \in 1..Len(sections) :
                           /\ sections[n].key = HeadingKey(text, i)
                           /\ sections[n].value = strip(Body(text, i))

\* the nodes of a section tree, each named by its path of positions from the top
RECURSIVE Paths(_)
Paths(sections) ==
    UNION { {<<i>>} \cup {<<i>> \o p : p \in Paths(sections[i].subsections)} :
            i \in 1..Len(sections) }

RECURSIVE NodeAt(_, _)
NodeAt(sections, p) ==
    IF Len(p) = 1 THEN sections[p[1]]
    ELSE NodeAt(sections[p[1]].subsections, Tail(p))

\* q is below p
Below(p, q) == Len(p) < Len(q) /\ SubSeq(q, 1, Len(p)) = p

\* p and q have one parent and p comes first in its mapping
EarlierSibling(p, q) ==
    /\ Len(p) = Len(q)
    /\ SubSeq(p, 1, Len(p) - 1) = SubSeq(q, 1, Len(q) - 1)
    /\ p[Len(p)] < q[Len(q)]

(* C25: the walk of a section tree holds every node exactly once, a parent
   before each node below it and siblings in the order of their mapping; the
   sub-tasks launched from one walk line up with a second walk of the tree. *)
C25_WalkIsPreOrder ==
    \A r \in Slots :
        (runs[r].status = "running" /\ runs[r].pc = "drafting_node:gather")
            => LET sections == runs[r].st.sections
                   walk == walk_sections(sections)
                   nodes == Paths(sections)
               IN  /\ Len(walk) = Cardinality(nodes)
                   /\ Len(runs[r].tasks) = Len(walk)
                   /\ \A i \in 1..Len(walk) :
                         runs[r].tasks[i].sources =
                             IF walk[i].instructions # None THEN <<walk[i].source>>
                             ELSE NoTask.sources
                   /\ \E at \in [nodes -> 1..Len(walk)] :
                         /\ \A p \in nodes : walk[at[p]] = NodeAt(sections, p)
                         /\ \A p, q \in nodes : p # q => at[p] # at[q]
                         /\ \A p, q \in nodes : Below(p, q) => at[p] < at[q]
                         /\ \A p, q \in nodes : EarlierSibling(p, q) => at[p] < at[q]

\* a parent A over B, then A's sibling C: the walk is A, B, C
C25_Witness ==
    \E r \in Slots :
        /\ runs[r].status = "running" /\ runs[r].pc = "drafting_node:gather"
        /\ Paths(runs[r].st.sections) = {<<1>>, <<1, 1>>, <<2>>}
        /\ [i \in 1..3 |-> walk_sections(runs[r].st.sections)[i].title] = <<"A", "B", "C">>

-----------------------------------------------------------------------------
(* Sub-graphs and results of the fan-out stages *)

\* the sub-tasks of the call in slot r that ran a sub-graph to its end
Completed(r) ==
    {i \in 1..Len(runs[r].tasks) :
        runs[r].tasks[i].pc = "done" /\ runs[r].tasks[i].sources # NoTask.sources}

(* C27: a sub-graph that completes has run its generation step after query and
   retrieve: a completed draft is the output of the draft step and a completed
   rewrite is the output of the rewrite step. *)
C27_QueryRetrieveGenerate ==
    \A r \in Slots :
        \A i \in Completed(r) :
            IF runs[r].kind = "targeted_edit"
            THEN runs[r].tasks[i].content \in {Rewrite(runs[r].id, i), runs[r].tasks[i].original}
            ELSE runs[r].tasks[i].content = Draft(runs[r].id, i)

(* C28: once a drafting sub-task has failed, no step of the call gets past the
   draft stage or writes a content: the section tree the call holds and the
   saved state of the thread stay as they were, and the call ends in an error. *)
C28_FailedDraftWritesNothing ==
    [][\A r \in Slots :
          (Running(r, "drafting_node:gather") /\ FailedTasks(r) # {} /\ runs'[r] # runs[r])
              => /\ checkpointer' = checkpointer
                 /\ runs'[r].pc = runs[r].pc
                 /\ runs'[r].status \in {"running", "error"}
                 /\ runs'[r].status = "running" => runs'[r].st = runs[r].st]_vars

\* the stage failed on one sub-task after another had produced its draft, and
\* no node of the saved section tree holds a content
C28_Witness ==
    \E r \in Slots :
        /\ runs[r].status = "error" /\ runs[r].pc = "drafting_node:gather"
        /\ FailedTasks(r) # {}
        /\ \E i \in 1..Len(runs[r].tasks) :
              runs[r].tasks[i].pc = "done" /\ runs[r].tasks[i].content # <<>>
        /\ LET cp == checkpointer[get_agent_config(runs[r].session)]
           IN  /\ cp # NoCheckpoint
               /\ \A i \in 1..Len(walk_sections(cp.values.sections)) :
                     walk_sections(cp.values.sections)[i].content = <<>>

\* the requested changes of the call in slot r that matched the section key
Matching(r, key) == {i \in 1..Len(runs[r].tasks) : runs[r].tasks[i].key = key}

(* C29: when several requested changes match one parsed section, each is
   rewritten from the section's original content, modified_sections holds one
   entry for the section, and the entry is the result of the last of them in
   request order, in whatever order the rewrites completed. *)
C29_LastRequestWins ==
    \A r \in Slots :
        Running(r, "assemble_document")
            => \A n \in 1..Len(runs[r].st.example_sections) :
                 LET key == runs[r].st.example_sections[n].key
                     same == Matching(r, key)
                     last == CHOOSE i \in same : \A j \in same : j <= i
                     entries == {m \in 1..Len(runs[r].st.modified_sections) :
                                    runs[r].st.modified_sections[m].key = key}
                 IN  same # {}
                       => /\ \A i \in same :
                                runs[r].tasks[i].original =
                                    runs[r].st.example_sections[n].value.content
                          /\ Cardinality(entries) = 1
                          /\ dict_get(runs[r].st.modified_sections, key) =
                                [title |-> runs[r].tasks[last].title,
                                 content |-> runs[r].tasks[last].content]

\* two changes matched one section, the second completed first, and the entry
\* is the rewrite of the second
C29_Witness ==
    \E r \in Slots :
        /\ Running(r, "assemble_document")
        /\ runs[r].finished = <<2, 1>>
        /\ runs[r].tasks[1].key = runs[r].tasks[2].key
        /\ runs[r].tasks[1].content = Rewrite(runs[r].id, 1)
        /\ Len(runs[r].st.modified_sections) = 1
        /\ runs[r].st.modified_sections[1].value.content = Rewrite(runs[r].id, 2)

====
